---- MODULE Spec2Model ----
(***************************************************************************)
(* Model of the plasmonic-lattice code: the lattice generators of the four *)
(* unit-cell classes and of the test script's Lattice class, the Ewald     *)
(* self-term limits and their memoisation, the interaction-matrix          *)
(* assemblers and the parallel sweeps.                                     *)
(*                                                                         *)
(* Real and complex quantities are modelled exactly over the integers:     *)
(* a lattice point is its index pair <<n, m>> (and, where a norm is        *)
(* needed, its integer coordinates in a basis fixed per lattice family),   *)
(* a complex number is a pair <<re, im>> of integers.                      *)
(***************************************************************************)
EXTENDS Integers, Sequences, FiniteSets, TLC

\* ------------------------------------------------------------------ bounds
\* largest truncation radius (neighbours) a cell is constructed with
MaxN == 3

\* largest truncation radius of an Ewald context
MaxNE == 1

\* number of calls made on one Ewald context
MaxCalls == 2

\* largest resolution of a path
MaxRes == 6

\* ------------------------------------------------------------ state
VARIABLES
    cell,        \* unit cell: the class of the object ("Square", ..., "Lattice")
    neighbours,  \* unit cell: its truncation radius
    request,     \* unit cell: the last call made on it (or on a context built on it)
    points,      \* unit cell: what the last lattice-generator call returned
    matrix,      \* unit cell: the shape the last matrix call returned, or what it raised
    zeroSep,     \* unit cell: whether the last call evaluated a general-distance
                 \*            term at separation 0
    ctx,         \* Ewald context: [lattice, q, N, E, j_max] as given to Ewald.__init__
    cache,       \* Ewald context: the entries of the memoize caches of t1_lim, t2_lim
    cacheI,      \* Ewald context: the keys of the memoize cache of t2_I_n
    evals,       \* Ewald context: how often the body of the recurrence (t2_I_2, t2_I_n)
                 \*                was evaluated, per <<dist**2, w, n>>
    series,      \* Ewald context: how often t2_I_0 / t2_I_1 were evaluated, per
                 \*                <<dist**2, w, n>>
    returned,    \* Ewald context: what the calls of t1_lim and t2_lim returned
    ncalls,      \* Ewald context: the number of calls made on it
    lat,         \* lattice vectors: the object built, [class, a1, a2]
    recip,       \* lattice vectors: the reciprocal vectors produced for it
    areaTerm,    \* lattice vectors: what the 1/area term of ewaldG1 gave
    sweepFn,     \* sweep: the function running ("loopExtinction", "dirtyRootFinder")
    tasks,       \* sweep: the argument tuples handed to pool.map, in order
    bad,         \* sweep: the indexes of the items whose evaluation raises
    queue,       \* sweep: the indexes of the items no worker has taken yet
    running,     \* sweep: per worker, the index of the item it evaluates (0: none)
    slots,       \* sweep: the value list of the map result
    success,     \* sweep: whether no item has failed so far
    arrival,     \* sweep: the indexes of the finished items, in order of completion
    sweep,       \* sweep: what the function returned or raised
    mcache,      \* shared cache: the dict of one decorated function
    thr,         \* shared cache: per caller, its position in decorated_function
    writes,      \* shared cache: per key, the number of stores made
    engine,      \* functionals: the fields of the Ewald context and of its cell
    engineCache, \* functionals: the keys held by the caches of t1_lim and t2_lim
    engineCall,  \* functionals: the last functional called, and the number of calls
    dyadIn,      \* dyadic self-sum: the wavenumber k and the harmonics h_0, h_pos2
    dyadLib,     \* dyadic self-sum: the components the library's dyadicSumEwald gave
    dyadTest,    \* dyadic self-sum: the components the test script's reducedDyadicSum gave
    imSelf,      \* interaction matrix: the wavevector q and the cell of the Interaction object
    imH,         \* interaction matrix: the blocks of H after interactionMatrix, or none yet
    dsSelf,      \* determinant_solver: the cell, the resolution, the guess w and the numpy installed
    dsConv,      \* determinant_solver: whether the root finder converged at each point of the path
    dsRoots,     \* determinant_solver: the list returned or the exception raised, or none yet
    proc,        \* conversion constant: the module and the way the interpreter runs it
    evPc,        \* conversion constant: how far the interpreter is: start, main, ready
    evGlobal,    \* conversion constant: the module's global ev
    evReads,     \* conversion constant: what each component got when it read ev
    igSelf,      \* integrals: the Ewald context (library on a Square, test script on a Lattice)
    igArgs,      \* integrals: the squared distance, frequency, order and offset of the calls
    igValues,    \* integrals: what each function returned, for those called so far
    shCache,     \* caches: the dict of each decorated method, args -> value
    shCall,      \* caches: the last call of a decorated method and what it returned
    egSelf,      \* eigenproblem: the class of the cell, its particles and the harmonics of the sum
    egW,         \* eigenproblem: the frequency [a, b] of the calls
    egOut,       \* eigenproblem: what each functional produced, for those called so far
    plSelf,      \* plot: the class of the cell, the resolution and whether numpy takes a float count
    plOut        \* plot: what the constructor and plotExtinction produced, once called

cellVars == <<cell, neighbours, request, points, matrix, zeroSep>>

ewaldVars == <<ctx, cache, cacheI, evals, series, returned, ncalls>>

recipVars == <<lat, recip, areaTerm>>

sweepVars == <<sweepFn, tasks, bad, queue, running, slots, success, arrival, sweep>>

memoVars == <<mcache, thr, writes>>

engineVars == <<engine, engineCache, engineCall>>

dyadVars == <<dyadIn, dyadLib, dyadTest>>

interVars == <<imSelf, imH>>

solverVars == <<dsSelf, dsConv, dsRoots>>

loadVars == <<proc, evPc, evGlobal, evReads>>

integVars == <<igSelf, igArgs, igValues>>

sharedVars == <<shCache, shCall>>

eigenVars == <<egSelf, egW, egOut>>

plotVars == <<plSelf, plOut>>

\* what the operations of one part of the model leave alone
outsideCell == <<ewaldVars, recipVars, sweepVars, memoVars, engineVars, dyadVars, interVars, solverVars, loadVars, integVars, sharedVars, eigenVars, plotVars>>

outsideEwald == <<cellVars, recipVars, sweepVars, memoVars, engineVars, dyadVars, interVars, solverVars, loadVars, integVars, sharedVars, eigenVars, plotVars>>

outsideRecip == <<cellVars, ewaldVars, sweepVars, memoVars, engineVars, dyadVars, interVars, solverVars, loadVars, integVars, sharedVars, eigenVars, plotVars>>

outsideSweep == <<cellVars, ewaldVars, recipVars, memoVars, engineVars, dyadVars, interVars, solverVars, loadVars, integVars, sharedVars, eigenVars, plotVars>>

outsideMemo == <<cellVars, ewaldVars, recipVars, sweepVars, engineVars, dyadVars, interVars, solverVars, loadVars, integVars, sharedVars, eigenVars, plotVars>>

outsideEngine == <<cellVars, ewaldVars, recipVars, sweepVars, memoVars, dyadVars, interVars, solverVars, loadVars, integVars, sharedVars, eigenVars, plotVars>>

outsideDyad == <<cellVars, ewaldVars, recipVars, sweepVars, memoVars, engineVars, interVars, solverVars, loadVars, integVars, sharedVars, eigenVars, plotVars>>

outsideInter == <<cellVars, ewaldVars, recipVars, sweepVars, memoVars, engineVars, dyadVars, solverVars, loadVars, integVars, sharedVars, eigenVars, plotVars>>

outsideSolver == <<cellVars, ewaldVars, recipVars, sweepVars, memoVars, engineVars, dyadVars, interVars, loadVars, integVars, sharedVars, eigenVars, plotVars>>

outsideLoad == <<cellVars, ewaldVars, recipVars, sweepVars, memoVars, engineVars, dyadVars, interVars, solverVars, integVars, sharedVars, eigenVars, plotVars>>

outsideInteg == <<cellVars, ewaldVars, recipVars, sweepVars, memoVars, engineVars, dyadVars, interVars, solverVars, loadVars, sharedVars, eigenVars, plotVars>>

outsideShared == <<cellVars, ewaldVars, recipVars, sweepVars, memoVars, engineVars, dyadVars, interVars, solverVars, loadVars, integVars, eigenVars, plotVars>>

outsideEigen == <<cellVars, ewaldVars, recipVars, sweepVars, memoVars, engineVars, dyadVars, interVars, solverVars, loadVars, integVars, sharedVars, plotVars>>

outsidePlot == <<cellVars, ewaldVars, recipVars, sweepVars, memoVars, engineVars, dyadVars, interVars, solverVars, loadVars, integVars, sharedVars, eigenVars>>

vars == <<cellVars, ewaldVars, recipVars, sweepVars, memoVars, engineVars, dyadVars, interVars, solverVars, loadVars, integVars, sharedVars, eigenVars, plotVars>>

\* positions are given in half lattice units: <<p1, p2>> is (p1*t1 + p2*t2)/2, so
\* that <<2n, 2m>> is the lattice point <<n, m>> and <<1, 0>> is no lattice point
Origin == <<0, 0>>

NoCall == [op |-> "none", type |-> "none", origin |-> FALSE, pos |-> Origin]

\* ===================================================== lattice generators
Variants == {"Square", "Triangle", "SimpleHoneycomb", "Honeycomb"}

Classes == Variants \cup {"Lattice"}

LatticeTypes == {"bravais", "reciprocal"}

\* a successful return of a list of index pairs, and a raised exception
Returned(seq) == [status |-> "ok", value |-> seq]

Raised(exc) == [status |-> "raised", value |-> exc]

\* np.arange(lo, hi + 1) as a sequence
arange(lo, hi) == [k \in 1..(IF hi >= lo THEN hi - lo + 1 ELSE 0) |-> lo + k - 1]

\* itertools.product(np.arange(-N, N+1), repeat=2): first index outermost
product2(N) ==
    [k \in 1..((2 * N + 1) * (2 * N + 1)) |->
        << ((k - 1) \div (2 * N + 1)) - N, ((k - 1) % (2 * N + 1)) - N >>]

NotOrigin(p) == p[1] # 0 \/ p[2] # 0

\* Square.getLattice: the origin is skipped when origin is False
Square_getLattice(N, type, origin) ==
    Returned(SelectSeq(product2(N), LAMBDA p : origin \/ NotOrigin(p)))

\* Triangle.getLattice: both parameters are ignored, the origin is always skipped
Triangle_getLattice(N, type, origin) ==
    Returned(SelectSeq(product2(N), NotOrigin))

\* SimpleHoneycomb.getLattice: both parameters are ignored, every pair is appended
SimpleHoneycomb_getLattice(N, type, origin) ==
    Returned(product2(N))

\* one row of Honeycomb.getLattice: the pairs <<n, m>> for m in arange(lo, hi + 1)
HoneycombRow_short(n, lo, hi) ==
    [k \in 1..Len(arange(lo, hi - 1)) |-> <<n, arange(lo, hi - 1)[k]>>]

HoneycombRow(n, lo, hi) == [k \in 1..Len(arange(lo, hi)) |-> <<n, arange(lo, hi)[k]>>]

RECURSIVE HoneycombRows(_, _)
HoneycombRows(n, N) ==
    IF n > N THEN << >>
    ELSE (IF n < 0 THEN HoneycombRow(n, -n - N, N)
          ELSE IF n > 0 THEN HoneycombRow(n, -N, N - n)
          ELSE HoneycombRow(n, -N, N))
         \o HoneycombRows(n + 1, N)

\* Honeycomb.getReciprocalVectors reads self.a1 and self.a2, which no method sets
Honeycomb_getReciprocalVectors == Raised("AttributeError")

\* Honeycomb.getLattice: origin is ignored; 'reciprocal' goes through
\* getReciprocalVectors
Honeycomb_getLattice(N, type, origin) ==
    IF type = "reciprocal" THEN Honeycomb_getReciprocalVectors
    ELSE Returned(HoneycombRows(-N, N))

\* Lattice.genBravais and Lattice.genReciprocal: the same loop over a1, a2 or b1, b2
Lattice_genBravais(number, origin) ==
    Returned(SelectSeq(product2(number), LAMBDA p : origin \/ NotOrigin(p)))

Lattice_genReciprocal(number, origin) ==
    Returned(SelectSeq(product2(number), LAMBDA p : origin \/ NotOrigin(p)))

\* the dispatch cell.getLattice(type, origin) of the callers
getLattice(c, N, type, origin) ==
    CASE c = "Square" -> Square_getLattice(N, type, origin)
      [] c = "Triangle" -> Triangle_getLattice(N, type, origin)
      [] c = "SimpleHoneycomb" -> SimpleHoneycomb_getLattice(N, type, origin)
      [] c = "Honeycomb" -> Honeycomb_getLattice(N, type, origin)
      [] c = "Lattice" -> IF type = "bravais" THEN Lattice_genBravais(N, origin)
                          ELSE Lattice_genReciprocal(N, origin)

\* the elements of a sequence
Range(seq) == {seq[i] : i \in DOMAIN seq}

\* ------------------------------------------------ unit-cell operations
\* getCellSize of each variant
getCellSize(c) ==
    CASE c = "Square" -> 1
      [] c = "Triangle" -> 1
      [] c = "SimpleHoneycomb" -> 2
      [] c = "Honeycomb" -> 6

\* particle positions are written <<x, y>> with x in units of spacing/2 and y in
\* units of spacing*sqrt(3)/2; s is the spacing
Spacings == {0, 1, 2}

Particle(s, x, y) == <<s * x, s * y>>

\* Square.getUnitCell and Triangle.getUnitCell: one particle at the origin
Square_getUnitCell(s) == <<Particle(s, 0, 0)>>

Triangle_getUnitCell(s) == <<Particle(s, 0, 0)>>

\* SimpleHoneycomb.getUnitCell: particles at (0, 0) and (spacing, 0)
SimpleHoneycomb_getUnitCell(s) == <<Particle(s, 0, 0), Particle(s, 2, 0)>>

\* Honeycomb.getUnitCell: the six corners of a hexagon of side spacing
Honeycomb_getUnitCell_five(s) ==
    <<Particle(s, 2, 0), Particle(s, 1, -1), Particle(s, -1, -1), Particle(s, -2, 0),
      Particle(s, -1, 1)>>

Honeycomb_getUnitCell(s) ==
    <<Particle(s, 2, 0), Particle(s, 1, -1), Particle(s, -1, -1), Particle(s, -2, 0),
      Particle(s, -1, 1), Particle(s, 1, 1)>>

getUnitCell(c, s) ==
    CASE c = "Square" -> Returned(Square_getUnitCell(s))
      [] c = "Triangle" -> Returned(Triangle_getUnitCell(s))
      [] c = "SimpleHoneycomb" -> Returned(SimpleHoneycomb_getUnitCell(s))
      [] c = "Honeycomb" -> Returned(Honeycomb_getUnitCell(s))

\* getLatticeVectors: SimpleHoneycomb defines none (nor does Particle)
getLatticeVectors(c) ==
    IF c = "SimpleHoneycomb" THEN Raised("AttributeError") ELSE Returned(<< >>)

\* a path of the given number of segments with n points each; a point is written
\* <<segment, place in the segment>>
BZPath(segments, n) == [k \in 1..(segments * n) |-> <<((k - 1) \div n) + 1, (k - 1) % n>>]

\* np.linspace(start, stop, num, endpoint) for start and stop in {0, 1}, each value
\* written as a number of D-ths
linspace(start, stop, num, endpoint, D) ==
    LET div == IF endpoint THEN (IF num > 1 THEN num - 1 ELSE 1) ELSE num
    IN  [i \in 1..num |-> (start * div + (i - 1) * (stop - start)) * (D \div div)]

\* np.zeros(num) and np.ones(num), in D-ths
np_zeros(num) == [i \in 1..num |-> 0]

np_ones(num, D) == [i \in 1..num |-> D]

\* np.concatenate of two and of three arrays, and list(zip(q_x, q_y)): a point is
\* <<x, y, D>>, standing for (x/D, y/D)
zip_xy(q_x, q_y, D) == [i \in 1..Len(q_x) |-> <<q_x[i], q_y[i], D>>]

\* the common denominator of a path with n points per segment
PathDen(n) == IF n > 1 THEN n * (n - 1) ELSE 1

\* Square.getBrillouinZone, in units of pi/spacing: Gamma to X and X to M without
\* their endpoints, M to Gamma with it; the counts handed to np.linspace are the
\* float size/3
Square_getBrillouinZone(size, takesFloat) ==
    LET n == size \div 3
        D == PathDen(n)
        q_x == linspace(0, 1, n, FALSE, D) \o np_ones(n, D) \o linspace(1, 0, n, TRUE, D)
        q_y == np_zeros(n) \o linspace(0, 1, n, FALSE, D) \o linspace(1, 0, n, TRUE, D)
    IN  IF takesFloat THEN Returned(zip_xy(q_x, q_y, D)) ELSE Raised("TypeError")

\* Honeycomb.getBrillouinZone, x in units of 4 pi/(3b) and y in units of
\* 2 pi/(sqrt(3) b): K to Gamma without its endpoint, Gamma to M with it; the counts
\* handed to np.linspace are the float size/2
Honeycomb_getBrillouinZone(size, takesFloat) ==
    LET n == size \div 2
        D == PathDen(n)
        q_x == linspace(1, 0, n, FALSE, D) \o np_zeros(n)
        q_y == np_zeros(n) \o linspace(0, 1, n, TRUE, D)
    IN  IF takesFloat THEN Returned(zip_xy(q_x, q_y, D)) ELSE Raised("TypeError")

\* getBrillouinZone: Triangle and SimpleHoneycomb pass int(size/3) to np.linspace,
\* Square passes size/3 and Honeycomb size/2, a float, which np.linspace truncates or
\* rejects with TypeError depending on the numpy installed
getBrillouinZone(c, size, takesFloat) ==
    CASE c = "Square" -> Square_getBrillouinZone(size, takesFloat)
      [] c = "Triangle" -> Returned(BZPath(3, size \div 3))
      [] c = "SimpleHoneycomb" -> Returned(BZPath(3, size \div 3))
      [] c = "Honeycomb" -> Honeycomb_getBrillouinZone(size, takesFloat)

\* getSpacing: defined by Square and Triangle only
getSpacing(c) ==
    IF c \in {"Square", "Triangle"} THEN Returned(<< >>) ELSE Raised("AttributeError")

\* getReciprocalVectors: Square computes them; Triangle and SimpleHoneycomb define
\* no such method; Honeycomb's reads self.a1 and self.a2
getReciprocalVectors(c) ==
    CASE c = "Square" -> Returned(<< >>)
      [] c = "Triangle" -> Raised("AttributeError")
      [] c = "SimpleHoneycomb" -> Raised("AttributeError")
      [] c = "Honeycomb" -> Honeycomb_getReciprocalVectors

\* the five operations of a unit cell
CellOperations ==
    {"getLatticeVectors", "getReciprocalVectors", "getUnitCell", "getBrillouinZone",
     "getCellSize"}

\* cell.<op>() on a cell of spacing s, a path of the given size where one is asked for
cellOperation(c, op, s, size, takesFloat) ==
    CASE op = "getLatticeVectors" -> getLatticeVectors(c)
      [] op = "getReciprocalVectors" -> getReciprocalVectors(c)
      [] op = "getUnitCell" -> getUnitCell(c, s)
      [] op = "getBrillouinZone" -> getBrillouinZone(c, size, takesFloat)
      [] op = "getCellSize" -> Returned(<<getCellSize(c)>>)

\* the first exception a sequence of calls raises, if any
RECURSIVE FirstRaised(_)
FirstRaised(rs) ==
    IF rs = << >> THEN Returned(<< >>)
    ELSE IF Head(rs).status = "raised" THEN Head(rs)
    ELSE FirstRaised(Tail(rs))

\* the lattice point <<n, m>> as a position
AtPoint(p) == <<2 * p[1], 2 * p[2]>>

\* a matrix shape; sum([]) of an empty list of blocks is the integer 0
Shape(r, k) == <<r, k>>

Scalar == << >>

\* what a call leaves behind: the shape returned (or the exception) and whether a
\* general-distance term was evaluated at separation 0
Outcome(m, z) == [matrix |-> m, zeroSep |-> z]

\* Ewald.t1_lim reads the lattice vectors, then the reciprocal lattice with origin
Ewald_t1_lim_calls(c, N) ==
    FirstRaised(<<getLatticeVectors(c), getLattice(c, N, "reciprocal", TRUE)>>)

\* Ewald.t2_lim sums over getLattice('bravais', False); a point of norm 0 in it
\* reaches t2_I_0 / t2_I_2 with dist = 0
Ewald_t2_lim_zero(c, N) ==
    LET r == getLattice(c, N, "bravais", FALSE)
    IN  r.status = "ok" /\ Origin \in Range(r.value)

\* Ewald.dyadicEwaldG2 (and ewaldG2) sum over getLattice('bravais', True) with
\* rho = pos - R_pos
Ewald_dyadicEwaldG2_zero(c, N, pos) ==
    LET r == getLattice(c, N, "bravais", TRUE)
    IN  r.status = "ok" /\ \E i \in DOMAIN r.value : AtPoint(r.value[i]) = pos

\* Ewald.dyadicSumEwald: the self-term limits when norm(pos) == 0, the
\* general-distance sums dyadicEwaldG1 + dyadicEwaldG2 otherwise; always 2 x 2
Ewald_dyadicSumEwald(c, N, pos) ==
    LET first == Ewald_t1_lim_calls(c, N)
    IN  IF first.status = "raised" THEN Outcome(first, FALSE)
        ELSE IF pos = Origin
             THEN Outcome(Returned(Shape(2, 2)), Ewald_t2_lim_zero(c, N))
             ELSE Outcome(Returned(Shape(2, 2)), Ewald_dyadicEwaldG2_zero(c, N, pos))

\* Ewald.interactionMatrix
Ewald_interactionMatrix(c, N, pos) == Ewald_dyadicSumEwald(c, N, pos)

\* Interaction.interactionMatrix: for cell size 1 the sum of the 2 x 2 blocks
\* green(inter) over the list; otherwise zeros((2c, 2c)) filled block by block,
\* the diagonal blocks skipping the points of norm 0
Interaction_interactionMatrix(c, N) ==
    LET intercell == getLattice(c, N, "bravais", FALSE).value
    IN  IF getCellSize(c) = 1
        THEN Outcome(Returned(IF intercell = << >> THEN Scalar ELSE Shape(2, 2)),
                     Origin \in Range(intercell))
        ELSE Outcome(Returned(Shape(2 * getCellSize(c), 2 * getCellSize(c))), FALSE)

\* numpy's M - identity(k)/alpha: a scalar broadcasts, equal shapes subtract,
\* anything else raises
SubtractIdentity(m, k) ==
    IF m.status = "raised" THEN m
    ELSE IF m.value = Scalar \/ m.value = Shape(k, k) THEN Returned(Shape(k, k))
    ELSE IF k = 1 THEN m
    ELSE Raised("ValueError")

\* Interaction.eigenproblem and Ewald.eigenproblem
Interaction_eigenproblem(c, N) ==
    LET o == Interaction_interactionMatrix(c, N)
    IN  Outcome(SubtractIdentity(o.matrix, 2 * getCellSize(c)), o.zeroSep)

Ewald_eigenproblem(c, N, pos) ==
    LET o == Ewald_interactionMatrix(c, N, pos)
    IN  Outcome(SubtractIdentity(o.matrix, 2 * getCellSize(c)), o.zeroSep)

\* Extinction(cell, resolution, ...).calcExtinction(w, q): the constructor asks for
\* the path, the call for the spacing and for the Ewald interaction matrix at the
\* origin; the extinction is a number
Extinction_calcExtinction(c, N, size, takesFloat) ==
    LET H_matrix == Ewald_interactionMatrix(c, N, Origin)
    IN  Outcome(FirstRaised(<<getBrillouinZone(c, size, takesFloat), getSpacing(c),
                              H_matrix.matrix>>),
                H_matrix.zeroSep)

\* testLatticeSum: the origin is left out of the direct sum exactly when
\* norm(pos) == 0; the direct sum then takes the distances pos - R
testLatticeSum_zero(number, pos) ==
    LET bravais == Lattice_genBravais(number, pos # Origin).value
    IN  \E i \in DOMAIN bravais : AtPoint(bravais[i]) = pos

\* the positions an Ewald context is built with: the origin, a point off the
\* lattice, and the lattice point a1
Positions == {Origin, <<1, 0>>, AtPoint(<<1, 0>>)}

\* ---- the unit cell as a state machine: an object of one class with a
\* ---- truncation radius, queried any number of times
InitCell ==
    /\ cell \in Classes
    /\ neighbours \in 0..MaxN
    /\ request = NoCall
    /\ points = Returned(<< >>)
    /\ matrix = Returned(Scalar)
    /\ zeroSep = FALSE

CallGetLattice(c) ==
    /\ cell = c
    /\ \E type \in LatticeTypes, origin \in BOOLEAN :
          /\ request' = [op |-> "getLattice", type |-> type, origin |-> origin,
                         pos |-> Origin]
          /\ points' = getLattice(c, neighbours, type, origin)
    /\ UNCHANGED <<cell, neighbours, matrix, zeroSep>>
    /\ UNCHANGED outsideCell

SquareGetLattice == CallGetLattice("Square")

TriangleGetLattice == CallGetLattice("Triangle")

SimpleHoneycombGetLattice == CallGetLattice("SimpleHoneycomb")

HoneycombGetLattice == CallGetLattice("Honeycomb")

LatticeGenBravais ==
    /\ cell = "Lattice"
    /\ \E origin \in BOOLEAN :
          /\ request' = [op |-> "genBravais", type |-> "bravais", origin |-> origin,
                         pos |-> Origin]
          /\ points' = Lattice_genBravais(neighbours, origin)
    /\ UNCHANGED <<cell, neighbours, matrix, zeroSep>>
    /\ UNCHANGED outsideCell

LatticeGenReciprocal ==
    /\ cell = "Lattice"
    /\ \E origin \in BOOLEAN :
          /\ request' = [op |-> "genReciprocal", type |-> "reciprocal",
                         origin |-> origin, pos |-> Origin]
          /\ points' = Lattice_genReciprocal(neighbours, origin)
    /\ UNCHANGED <<cell, neighbours, matrix, zeroSep>>
    /\ UNCHANGED outsideCell

\* a call whose outcome is a matrix: op on the path ("direct" or "ewald") at pos
MatrixCall(op, path, pos, o) ==
    /\ request' = [op |-> op, type |-> path, origin |-> FALSE, pos |-> pos]
    /\ matrix' = o.matrix
    /\ zeroSep' = o.zeroSep
    /\ UNCHANGED <<cell, neighbours, points>>
    /\ UNCHANGED outsideCell

InteractionInteractionMatrix ==
    /\ cell \in Variants
    /\ MatrixCall("interactionMatrix", "direct", Origin,
                  Interaction_interactionMatrix(cell, neighbours))

InteractionEigenproblem ==
    /\ cell \in Variants
    /\ MatrixCall("eigenproblem", "direct", Origin,
                  Interaction_eigenproblem(cell, neighbours))

EwaldInteractionMatrix ==
    /\ cell \in Variants
    /\ \E pos \in Positions :
          MatrixCall("interactionMatrix", "ewald", pos,
                     Ewald_interactionMatrix(cell, neighbours, pos))

EwaldEigenproblem ==
    /\ cell \in Variants
    /\ \E pos \in Positions :
          MatrixCall("eigenproblem", "ewald", pos,
                     Ewald_eigenproblem(cell, neighbours, pos))

\* t2_lim called on a context of the cell
EwaldT2Lim ==
    /\ cell \in Variants
    /\ MatrixCall("t2_lim", "ewald", Origin,
                  Outcome(Returned(Scalar), Ewald_t2_lim_zero(cell, neighbours)))

\* the test script's testLatticeSum at a position
TestLatticeSum ==
    /\ cell = "Lattice"
    /\ \E pos \in Positions :
          MatrixCall("testLatticeSum", "direct", pos,
                     Outcome(Returned(Scalar), testLatticeSum_zero(neighbours, pos)))

\* cell.getUnitCell() on a cell of any spacing
GetUnitCell ==
    /\ cell \in Variants
    /\ \E s \in Spacings :
          /\ request' = [op |-> "getUnitCell", type |-> "none", origin |-> FALSE,
                         pos |-> Origin]
          /\ points' = getUnitCell(cell, s)
    /\ UNCHANGED <<cell, neighbours, matrix, zeroSep>>
    /\ UNCHANGED outsideCell

\* one of the five operations called on the cell
CellOperation ==
    /\ cell \in Variants
    /\ \E op \in CellOperations :
          \E s \in IF op = "getUnitCell" THEN Spacings ELSE {1},
             size \in IF op = "getBrillouinZone" THEN 0..MaxRes ELSE {0},
             takesFloat \in IF op = "getBrillouinZone" THEN BOOLEAN ELSE {TRUE} :
                /\ request' = [op |-> op, type |-> "none", origin |-> FALSE, pos |-> Origin]
                /\ points' = cellOperation(cell, op, s, size, takesFloat)
    /\ UNCHANGED <<cell, neighbours, matrix, zeroSep>>
    /\ UNCHANGED outsideCell

\* Extinction.calcExtinction on the cell
ExtinctionCalcExtinction ==
    /\ cell \in Variants
    /\ \E size \in 0..MaxRes, takesFloat \in BOOLEAN :
          MatrixCall("calcExtinction", "ewald", Origin,
                     Extinction_calcExtinction(cell, neighbours, size, takesFloat))

NextCell ==
    \/ SquareGetLattice
    \/ TriangleGetLattice
    \/ SimpleHoneycombGetLattice
    \/ HoneycombGetLattice
    \/ LatticeGenBravais
    \/ LatticeGenReciprocal
    \/ InteractionInteractionMatrix
    \/ InteractionEigenproblem
    \/ EwaldInteractionMatrix
    \/ EwaldEigenproblem
    \/ EwaldT2Lim
    \/ TestLatticeSum
    \/ GetUnitCell
    \/ CellOperation
    \/ ExtinctionCalcExtinction

\* ======================================================= complex arithmetic
\* a complex number is <<re, im>>
CAdd(a, b) == <<a[1] + b[1], a[2] + b[2]>>

CNeg(a) == <<-a[1], -a[2]>>

conjugate(a) == <<a[1], -a[2]>>

CMul(a, b) == <<a[1] * b[1] - a[2] * b[2], a[1] * b[2] + a[2] * b[1]>>

CScale(r, a) == <<r * a[1], r * a[2]>>

RECURSIVE CPow(_, _)
CPow(a, m) == IF m = 0 THEN <<1, 0>> ELSE CMul(a, CPow(a, m - 1))

\* 1j**k, and exp(1j*t) for t = k quarter turns
IPow(k) == CPow(<<0, 1>>, k % 4)

RECURSIVE CSum(_)
CSum(zs) == IF zs = << >> THEN <<0, 0>> ELSE CAdd(Head(zs), CSum(Tail(zs)))

RECURSIVE Pow(_, _)
Pow(x, m) == IF m = 0 THEN 1 ELSE x * Pow(x, m - 1)

RECURSIVE factorial(_)
factorial(j) == IF j = 0 THEN 1 ELSE j * factorial(j - 1)

abs(n) == IF n < 0 THEN -n ELSE n

RECURSIVE GCD(_, _)
GCD(x, y) == IF y = 0 THEN x ELSE GCD(y, x % y)

LCM(x, y) == (x * y) \div GCD(x, y)

Dot(u, v) == u[1] * v[1] + u[2] * v[2]

Norm2(v) == Dot(v, v)

\* ================================================== reciprocal lattice vectors
\* np.dot(R, v) for R = [[0, -1], [1, 0]]
RotR_swap(v) == <<v[2], v[1]>>

RotR(v) == <<-v[2], v[1]>>

\* 2*pi * np.dot(R, aj) / np.dot(ai, np.dot(R, aj)), kept as the numerator vector
\* and the denominator, in units of 2*pi; numpy's division by 0 raises nothing
\* and gives a non-finite vector (inf or nan components)
reciprocalVector(ai, aj) == [num |-> RotR(aj), den |-> Dot(ai, RotR(aj))]

\* float(np.cross(a1, a2))
cross(u, v) == u[1] * v[2] - u[2] * v[1]

\* ================================ Ewald self-term limits t1_lim, t2_lim, I_n
\* Units.  Lengths are in units of the lattice spacing a, wavevectors in units of
\* pi/(2a), so that exp(1j*np.dot(q, R)) is 1j**(q.R) exactly.  k = w*ev with the
\* frequency unit chosen so that ev = 1.  The transcendental library functions
\* np.exp, sp.special.expn keep their arguments and are given integer values.

\* Square.getLatticeVectors with scaling*spacing = 1, and a1, a2 of the test script
a1 == <<0, 1>>

a2 == <<1, 0>>

\* b1, b2 of Lattice.__init__ / Square.getReciprocalVectors in units of pi/(2a)
QuarterTurns(b) == <<(4 * b.num[1]) \div b.den, (4 * b.num[2]) \div b.den>>

b1 == QuarterTurns(reciprocalVector(a1, a2))

b2 == QuarterTurns(reciprocalVector(a2, a1))

\* n*t1 + m*t2
Vec(p, t1, t2) == <<p[1] * t1[1] + p[2] * t2[1], p[1] * t1[2] + p[2] * t2[2]>>

\* the complex number v[1] + 1j*v[2]
AsComplex(v) == <<v[1], v[2]>>

\* the lattice of a context: the library Ewald holds a Square, the test script's
\* Ewald a Lattice
reciprocalPoints(self) ==
    LET r == getLattice(self.lattice, self.N, "reciprocal", TRUE).value
    IN  [i \in DOMAIN r |-> Vec(r[i], b1, b2)]

bravaisPoints(self) ==
    LET r == getLattice(self.lattice, self.N, "bravais", FALSE).value
    IN  [i \in DOMAIN r |-> Vec(r[i], a1, a2)]

\* stands for exp((k**2 - beta_norm**2)/(4*E**2)) / (k**2 - beta_norm**2): a real
\* number with the sign of k**2 - beta_norm**2
dampedPole(self, w, beta2) == 2 * (w * w - beta2) + self.E

\* stands for np.exp(k**2/(4*E**2) - dist**2*E**2): a positive real number
gaussian(self, w, d2) == 1 + w * w + 3 * self.E * self.E * d2

\* stands for sp.special.expn(n, x): a positive real number
expn(n, x) == 1000 - 10 * x - n

\* the summand of t1_lim at harmonic order m >= 0, in units of 4/(area * k**m):
\* 1j**(m+1) * 1/(k**2 - beta_norm**2) * exp(...) * beta_norm**m * exp(-1j*m*phi),
\* where beta_norm**m * exp(-1j*m*phi) = (beta_x - 1j*beta_y)**m
t1_summand(self, w, m, G) ==
    LET beta == <<self.q[1] + G[1], self.q[2] + G[2]>>
    IN  CScale(dampedPole(self, w, Norm2(beta)),
               CMul(IPow(m + 1), CPow(conjugate(AsComplex(beta)), m)))

t1_sum(self, w, m) ==
    LET G == reciprocalPoints(self)
    IN  CSum([i \in DOMAIN G |-> t1_summand(self, w, m, G[i])])

\* library Ewald.t1_lim (undecorated): n < 0 sums at m = abs(n), then -conjugate
Ewald_t1_lim(self, w, n) ==
    LET m == abs(n)
        _sum == IF n >= 0 THEN t1_sum(self, w, n) ELSE t1_sum(self, w, m)
    IN  IF n < 0 THEN CNeg(conjugate(_sum)) ELSE _sum

\* test-script Ewald.t1_lim: the loop body rebinds n = abs(n), so the test n < 0
\* after the loop reads the rebound n
Test_t1_lim(self, w, n) ==
    LET nAfter == IF reciprocalPoints(self) = << >> THEN n ELSE abs(n)
        _sum == t1_sum(self, w, abs(n))
    IN  IF nAfter < 0 THEN CNeg(conjugate(_sum)) ELSE _sum

\* t2IntegralFunc(dist, w, j_min), times j_max! * (2E)**(2*j_max): the loop
\* assigns (not adds) each term to _sum
RECURSIVE t2IntegralLoop(_, _, _, _, _, _)
t2IntegralLoop(self, d2, w, j_min, j, _sum) ==
    IF j > self.j_max THEN _sum
    ELSE t2IntegralLoop(self, d2, w, j_min, j + 1,
            (factorial(self.j_max) \div factorial(j)) * Pow(w, 2 * j)
                * Pow(2 * self.E, 2 * (self.j_max - j))
                * expn(j + j_min, d2 * self.E * self.E))

t2IntegralFunc(self, d2, w, j_min) == t2IntegralLoop(self, d2, w, j_min, 0, 0)

\* the factor all the integrals I_n below are multiplied by
IUnit(self) == 2 * factorial(self.j_max) * Pow(2 * self.E, 2 * self.j_max)

\* t2_I_0 = 0.5*t2IntegralFunc(dist, w, 1) and
\* t2_I_1 = 0.5*E**2*t2IntegralFunc(dist, w, 0), times IUnit
t2_I_0(self, d2, w) == t2IntegralFunc(self, d2, w, 1)

t2_I_1(self, d2, w) == self.E * self.E * t2IntegralFunc(self, d2, w, 0)

\* library t2_I_2, times 8*dist**2 * IUnit:
\* E**2/(2*dist**2)*exp(..) + t2_I_1/(2*dist**2) - (k**2/(8*dist**2))*t2_I_0
t2_I_2(self, d2, w) ==
    4 * self.E * self.E * IUnit(self) * gaussian(self, w, d2)
        + 4 * t2_I_1(self, d2, w) - w * w * t2_I_0(self, d2, w)

\* test-script t2_I_n (undecorated), n >= 1, times
\* (8*dist**2)**(n-1) * (n-1)! * IUnit
RECURSIVE t2_I_n(_, _, _, _)
t2_I_n(self, d2, w, n) ==
    IF n = 1 THEN t2_I_1(self, d2, w)
    ELSE IF n = 2
    THEN 4 * self.E * self.E * IUnit(self) * gaussian(self, w, d2)
            + 8 * t2_I_1(self, d2, w) - 2 * w * w * t2_I_0(self, d2, w)
    ELSE 4 * Pow(self.E, 2 * (n - 1)) * IUnit(self) * gaussian(self, w, d2)
                * Pow(8 * d2, n - 2) * factorial(n - 2)
            + 8 * (n - 1) * t2_I_n(self, d2, w, n - 1)
            - 2 * w * w * 8 * d2 * (n - 1) * (n - 2) * t2_I_n(self, d2, w, n - 2)

\* the least common multiple of dist**2 over the points of a sum
RECURSIVE CommonDist2(_)
CommonDist2(Rs) ==
    IF Rs = << >> THEN 1 ELSE LCM(Norm2(Head(Rs)), CommonDist2(Tail(Rs)))

\* the integral a t2_lim summand of order m >= 1 is weighted by, brought to the
\* common denominator of the sum: the library uses t2_I_2 whatever the order,
\* the test script t2_I_n(dist, w, m)
t2_weight(self, d2, w, m, common) ==
    IF self.lattice = "Square"
    THEN t2_I_2(self, d2, w) * (common \div d2)
    ELSE t2_I_n(self, d2, w, m) * Pow(common \div d2, m - 1)

\* the summand of t2_lim at order m >= 0, in units of 1/(pi * k**m) and of the
\* common denominator: for m = 0, -2j * exp(1j*q.R) * t2_I_0; for m > 0,
\* -(2**(m+1)) * 1j * exp(1j*q.R) * exp(-1j*m*alpha) * R_norm**m * I
t2_summand(self, w, m, R, common) ==
    LET phase == IPow(Dot(self.q, R))
    IN  IF m = 0
        THEN CScale(t2_I_0(self, Norm2(R), w), CMul(<<0, -2>>, phase))
        ELSE CScale(-Pow(2, m + 1) * t2_weight(self, Norm2(R), w, m, common),
                    CMul(CMul(<<0, 1>>, phase), CPow(conjugate(AsComplex(R)), m)))

\* t2_lim (undecorated), library and test script: n < 0 sums at m = abs(n), then
\* -conjugate
Ewald_t2_lim(self, w, n) ==
    LET Rs == bravaisPoints(self)
        m == abs(n)
        _sum == CSum([i \in DOMAIN Rs |-> t2_summand(self, w, m, Rs[i], CommonDist2(Rs))])
    IN  IF n < 0 THEN CNeg(conjugate(_sum)) ELSE _sum

\* ----------------------------------------- the memoize decorator and I_n
\* an entry of the cache of a decorated method: args = (self, w, n) -> value
Entry(fn, w, n, val) == [fn |-> fn, w |-> w, n |-> n, val |-> val]

Cached(c, fn, w, n) == {e \in c : e.fn = fn /\ e.w = w /\ e.n = n}

\* decorated_function: the cached value on a hit; on a miss f(*args) is stored
\* and returned
memoize_cache(c, fn, w, n, val) ==
    IF Cached(c, fn, w, n) # {} THEN c ELSE c \cup {Entry(fn, w, n, val)}

memoize_return(c, fn, w, n, val) ==
    IF Cached(c, fn, w, n) # {} THEN (CHOOSE e \in Cached(c, fn, w, n) : TRUE).val
    ELSE val

\* one more evaluation under a key
Counted(b, key) ==
    IF key \in DOMAIN b THEN [b EXCEPT ![key] = @ + 1] ELSE b @@ (key :> 1)

\* the evaluation record threaded through a call: the t2_I_n cache and the counts
Trace(ci, ev, se) == [cacheI |-> ci, evals |-> ev, series |-> se]

\* t2_I_0 and t2_I_1 are plain methods: each call evaluates the integral series
call_t2_I_0(tr, d2, w) == [tr EXCEPT !.series = Counted(@, <<d2, w, 0>>)]

call_t2_I_1(tr, d2, w) == [tr EXCEPT !.series = Counted(@, <<d2, w, 1>>)]

\* library t2_I_2 is a plain method: each call evaluates its body, which calls
\* t2_I_1 and t2_I_0
call_t2_I_2(tr, d2, w) ==
    call_t2_I_0(call_t2_I_1([tr EXCEPT !.evals = Counted(@, <<d2, w, 2>>)], d2, w),
                d2, w)

\* test-script t2_I_n is decorated: a hit evaluates nothing; a miss evaluates the
\* body (n = 1: t2_I_1; n = 2: t2_I_1 and t2_I_0; otherwise the decorated
\* t2_I_n at n-1 and n-2) and stores the key
RECURSIVE call_t2_I_n(_, _, _, _)
call_t2_I_n(tr, d2, w, n) ==
    IF <<d2, w, n>> \in tr.cacheI THEN tr
    ELSE LET body == [tr EXCEPT !.evals = Counted(@, <<d2, w, n>>)]
             done == IF n = 1 THEN call_t2_I_1(body, d2, w)
                     ELSE IF n = 2 THEN call_t2_I_0(call_t2_I_1(body, d2, w), d2, w)
                     ELSE call_t2_I_n(call_t2_I_n(body, d2, w, n - 1), d2, w, n - 2)
         IN  [done EXCEPT !.cacheI = @ \cup {<<d2, w, n>>}]

\* the loop of t2_lim over the points: per point, t2_I_0 for n = 0, otherwise
\* t2_I_2 (library) or t2_I_n at abs(n) (test script)
RECURSIVE t2_lim_loop(_, _, _, _, _)
t2_lim_loop(tr, lattice, Rs, w, n) ==
    IF Rs = << >> THEN tr
    ELSE LET d2 == Norm2(Head(Rs))
             step == IF n = 0 THEN call_t2_I_0(tr, d2, w)
                     ELSE IF lattice = "Square" THEN call_t2_I_2(tr, d2, w)
                     ELSE call_t2_I_n(tr, d2, w, abs(n))
         IN  t2_lim_loop(step, lattice, Tail(Rs), w, n)

\* --------------------------------------- the Ewald context as a state machine
Wavevectors == {<<0, 0>>, <<1, 0>>, <<1, 2>>}

Frequencies == {1, 2}

Orders == -3..3

Contexts ==
    [lattice : {"Square", "Lattice"}, q : Wavevectors, N : 1..MaxNE, E : {1},
     j_max : {2}]

\* the squared distances of the points of a context's real-space sum
Distances2(c) == {Norm2(bravaisPoints(c)[i]) : i \in DOMAIN bravaisPoints(c)}

InitEwald ==
    /\ ctx \in Contexts
    /\ cache = {}
    /\ cacheI = {}
    /\ evals = << >>
    /\ series = << >>
    /\ returned = {}
    /\ ncalls = 0

\* library t1_lim, decorated
LibT1Lim ==
    /\ ctx.lattice = "Square"
    /\ ncalls < MaxCalls
    /\ \E w \in Frequencies, n \in Orders :
          /\ cache' = memoize_cache(cache, "t1_lim", w, n, Ewald_t1_lim(ctx, w, n))
          /\ returned' = returned \cup
                {Entry("t1_lim", w, n,
                       memoize_return(cache, "t1_lim", w, n, Ewald_t1_lim(ctx, w, n)))}
    /\ ncalls' = ncalls + 1
    /\ UNCHANGED <<ctx, cacheI, evals, series>>
    /\ UNCHANGED outsideEwald

\* test-script t1_lim, not decorated
TestT1Lim ==
    /\ ctx.lattice = "Lattice"
    /\ ncalls < MaxCalls
    /\ \E w \in Frequencies, n \in Orders :
          returned' = returned \cup {Entry("t1_lim", w, n, Test_t1_lim(ctx, w, n))}
    /\ ncalls' = ncalls + 1
    /\ UNCHANGED <<ctx, cache, cacheI, evals, series>>
    /\ UNCHANGED outsideEwald

\* t2_lim, decorated in both classes: on a miss the loop over the points runs
T2Lim(lattice) ==
    /\ ctx.lattice = lattice
    /\ ncalls < MaxCalls
    /\ \E w \in Frequencies, n \in Orders :
          LET hit == Cached(cache, "t2_lim", w, n) # {}
              tr == IF hit THEN Trace(cacheI, evals, series)
                    ELSE t2_lim_loop(Trace(cacheI, evals, series), lattice,
                                     bravaisPoints(ctx), w, n)
          IN  /\ cache' = memoize_cache(cache, "t2_lim", w, n, Ewald_t2_lim(ctx, w, n))
              /\ returned' = returned \cup
                    {Entry("t2_lim", w, n,
                           memoize_return(cache, "t2_lim", w, n, Ewald_t2_lim(ctx, w, n)))}
              /\ cacheI' = tr.cacheI
              /\ evals' = tr.evals
              /\ series' = tr.series
    /\ ncalls' = ncalls + 1
    /\ UNCHANGED ctx
    /\ UNCHANGED outsideEwald

LibT2Lim == T2Lim("Square")

TestT2Lim == T2Lim("Lattice")

\* library t2_I_2 called at a distance of the sum
LibT2I2 ==
    /\ ctx.lattice = "Square"
    /\ ncalls < MaxCalls
    /\ \E d2 \in Distances2(ctx), w \in Frequencies :
          LET tr == call_t2_I_2(Trace(cacheI, evals, series), d2, w)
          IN  /\ cacheI' = tr.cacheI
              /\ evals' = tr.evals
              /\ series' = tr.series
    /\ ncalls' = ncalls + 1
    /\ UNCHANGED <<ctx, cache, returned>>
    /\ UNCHANGED outsideEwald

\* test-script t2_I_n called at a distance of the sum, n >= 1
TestT2In ==
    /\ ctx.lattice = "Lattice"
    /\ ncalls < MaxCalls
    /\ \E d2 \in Distances2(ctx), w \in Frequencies, n \in 1..3 :
          LET tr == call_t2_I_n(Trace(cacheI, evals, series), d2, w, n)
          IN  /\ cacheI' = tr.cacheI
              /\ evals' = tr.evals
              /\ series' = tr.series
    /\ ncalls' = ncalls + 1
    /\ UNCHANGED <<ctx, cache, returned>>
    /\ UNCHANGED outsideEwald

NextEwald ==
    \/ LibT1Lim
    \/ TestT1Lim
    \/ LibT2Lim
    \/ TestT2Lim
    \/ LibT2I2
    \/ TestT2In

\* =================================== construction of the lattice vectors
\* largest component of a lattice vector, in units of the spacing
MaxA == 2

Vectors == (-MaxA..MaxA) \X (-MaxA..MaxA)

NoLattice == [class |-> "none", a1 |-> Origin, a2 |-> Origin, status |-> "none"]

NotBuilt == [status |-> "none"]

\* Lattice.__init__(a1, a2): stores the pair and divides; nothing is checked and
\* nothing is raised
Lattice_init(ai, aj) ==
    [lat |-> [class |-> "Lattice", a1 |-> ai, a2 |-> aj, status |-> "ok"],
     recip |-> [status |-> "ok", b1 |-> reciprocalVector(ai, aj),
                b2 |-> reciprocalVector(aj, ai)]]

\* Square.getLatticeVectors for scaling*spacing = s
Square_getLatticeVectors(s) == <<<<0, s>>, <<s, 0>>>>

\* Square.__init__ stores its parameters only
Square_init(s) ==
    [class |-> "Square", a1 |-> Square_getLatticeVectors(s)[1],
     a2 |-> Square_getLatticeVectors(s)[2], status |-> "ok"]

Square_getReciprocalVectors(ai, aj) ==
    [status |-> "ok", b1 |-> reciprocalVector(ai, aj), b2 |-> reciprocalVector(aj, ai)]

\* the term 1./area of ewaldG1, area = float(np.cross(a1, a2)): a Python float
\* division, which raises at area = 0.0
Ewald_ewaldG1(ai, aj) ==
    IF cross(ai, aj) = 0 THEN Raised("ZeroDivisionError")
    ELSE Returned([num |-> 1, den |-> cross(ai, aj)])

InitRecip ==
    /\ lat = NoLattice
    /\ recip = NotBuilt
    /\ areaTerm = NotBuilt

LatticeInit ==
    /\ lat.class = "none"
    /\ \E ai \in Vectors, aj \in Vectors :
          /\ lat' = Lattice_init(ai, aj).lat
          /\ recip' = Lattice_init(ai, aj).recip
    /\ UNCHANGED areaTerm
    /\ UNCHANGED outsideRecip

SquareInit ==
    /\ lat.class = "none"
    /\ \E s \in 0..MaxA : lat' = Square_init(s)
    /\ UNCHANGED <<recip, areaTerm>>
    /\ UNCHANGED outsideRecip

SquareGetReciprocalVectors ==
    /\ lat.class = "Square"
    /\ recip.status = "none"
    /\ recip' = Square_getReciprocalVectors(lat.a1, lat.a2)
    /\ UNCHANGED <<lat, areaTerm>>
    /\ UNCHANGED outsideRecip

\* ewaldG1 on a context holding the lattice
EwaldG1 ==
    /\ lat.class # "none"
    /\ areaTerm.status = "none"
    /\ areaTerm' = Ewald_ewaldG1(lat.a1, lat.a2)
    /\ UNCHANGED <<lat, recip>>
    /\ UNCHANGED outsideRecip

NextRecip ==
    \/ LatticeInit
    \/ SquareInit
    \/ SquareGetReciprocalVectors
    \/ EwaldG1

\* ====================================================== the parallel sweeps
\* largest number of frequencies (len(wrange), guesses) of a sweep
MaxW == 2

\* largest number of wavevectors (len(qrange)) of a sweep
MaxQ == 2

\* the worker processes of Pool()
Workers == {"p1", "p2"}

\* wq_vals = [(w, q) for w in self.wrange for q in self.qrange]; wrange[i] and
\* qrange[j] are written i and j (counted from 0)
wq_vals_by_q(nw, nq) == [k \in 1..(nw * nq) |-> <<(k - 1) % nw, (k - 1) \div nw>>]

wq_vals(nw, nq) == [k \in 1..(nw * nq) |-> <<(k - 1) \div nq, (k - 1) % nq>>]

\* values = [([w, 0], cell, resolution) for w in wrange]
values(nw) == [k \in 1..nw |-> <<k - 1>>]

\* the value calcExtinction(w, q) returns when it returns
calcExtinction(w, q) == [extinction |-> <<w, q>>]

\* the list of roots determinant_solver(w, cell, resolution) returns when it returns
determinant_solver(w) == [roots |-> w]

\* _calcExtinction(args) and _determinant_solver(args): the wrapped call on *args
Evaluate(fn, args) ==
    IF fn = "loopExtinction" THEN calcExtinction(args[1], args[2])
    ELSE determinant_solver(args[1])

Empty == [empty |-> TRUE]

\* pool.map puts the result of item k at place k of the value list
pool_store(val, k, r) == [val EXCEPT ![k] = r]

\* the sets of items that raise: none, or a single one
BadSets(n) == {{}} \cup {{k} : k \in 1..n}

NoSweep == [name |-> "none", nw |-> 0, nq |-> 0]

InitSweep ==
    /\ sweepFn = NoSweep
    /\ tasks = << >>
    /\ bad = {}
    /\ queue = << >>
    /\ running = [p \in Workers |-> 0]
    /\ slots = << >>
    /\ success = TRUE
    /\ arrival = [finished |-> 0, outOfOrder |-> FALSE]
    /\ sweep = NotBuilt

\* pool.map(f, items) is entered: the items are queued in order
MapStart(items) ==
    /\ sweepFn.name = "none"
    /\ tasks' = items
    /\ bad' \in BadSets(Len(items))
    /\ queue' = [k \in 1..Len(items) |-> k]
    /\ slots' = [k \in 1..Len(items) |-> Empty]
    /\ sweep' = [status |-> "mapping"]
    /\ UNCHANGED <<running, success, arrival>>
    /\ UNCHANGED outsideSweep

LoopExtinction ==
    \E nw \in 1..MaxW, nq \in 1..MaxQ :
        /\ sweepFn' = [name |-> "loopExtinction", nw |-> nw, nq |-> nq]
        /\ MapStart(wq_vals(nw, nq))

DirtyRootFinder ==
    \E nw \in 1..MaxW :
        /\ sweepFn' = [name |-> "dirtyRootFinder", nw |-> nw, nq |-> 1]
        /\ MapStart(values(nw))

\* an idle worker takes the next item of the queue
WorkerTake ==
    /\ sweep.status = "mapping"
    /\ queue # << >>
    /\ \E p \in Workers :
          /\ running[p] = 0
          /\ running' = [running EXCEPT ![p] = Head(queue)]
    /\ queue' = Tail(queue)
    /\ UNCHANGED <<sweepFn, tasks, bad, slots, success, arrival, sweep>>
    /\ UNCHANGED outsideSweep

\* a worker finishes its item: the result is stored while no item has failed; an
\* exception clears the success flag and is kept as the value of the map
WorkerFinish ==
    /\ sweep.status = "mapping"
    /\ \E p \in Workers :
          LET k == running[p]
          IN  /\ k # 0
              /\ running' = [running EXCEPT ![p] = 0]
              /\ success' = (success /\ k \notin bad)
              /\ slots' = IF success /\ k \notin bad
                          THEN pool_store(slots, k, Evaluate(sweepFn.name, tasks[k]))
                          ELSE slots
              /\ arrival' = [finished |-> arrival.finished + 1,
                             outOfOrder |-> arrival.outOfOrder
                                \/ \E o \in Workers : running[o] # 0 /\ running[o] < k]
    /\ UNCHANGED <<sweepFn, tasks, bad, queue, sweep>>
    /\ UNCHANGED outsideSweep

AllDone == arrival.finished = Len(tasks)

\* loopExtinction: results.append(pool.map(...)); return results
LoopExtinctionReturn ==
    /\ sweepFn.name = "loopExtinction"
    /\ sweep.status = "mapping"
    /\ success /\ AllDone
    /\ sweep' = Returned(<<slots>>)
    /\ UNCHANGED <<sweepFn, tasks, bad, queue, running, slots, success, arrival>>
    /\ UNCHANGED outsideSweep

\* dirtyRootFinder: results.append(pool.map(...)); ...; return(results[0])
DirtyRootFinderReturn ==
    /\ sweepFn.name = "dirtyRootFinder"
    /\ sweep.status = "mapping"
    /\ success /\ AllDone
    /\ sweep' = Returned(slots)
    /\ UNCHANGED <<sweepFn, tasks, bad, queue, running, slots, success, arrival>>
    /\ UNCHANGED outsideSweep

\* pool.map re-raises the exception of a failed item in the caller, which has no
\* handler: at once, or when all items are done, depending on the Python version
MapRaise ==
    /\ sweep.status = "mapping"
    /\ ~success
    /\ sweep' = Raised("item")
    /\ UNCHANGED <<sweepFn, tasks, bad, queue, running, slots, success, arrival>>
    /\ UNCHANGED outsideSweep

NextSweep ==
    \/ LoopExtinction
    \/ DirtyRootFinder
    \/ WorkerTake
    \/ WorkerFinish
    \/ LoopExtinctionReturn
    \/ DirtyRootFinderReturn
    \/ MapRaise

\* the item results a finished sweep hands to its caller
Delivered ==
    IF sweep.status # "ok" THEN << >>
    ELSE IF sweepFn.name = "loopExtinction" THEN sweep.value[1] ELSE sweep.value

\* ================================== the memoize cache under concurrent callers
\* number of calls each caller makes
MaxMemoCalls == 2

Callers == {"c1", "c2"}

\* two Ewald objects that differ in their wavevector
Selves == {"e1", "e2"}

ContextOf(self) ==
    [lattice |-> "Square", q |-> IF self = "e1" THEN <<1, 0>> ELSE <<1, 2>>,
     N |-> 1, E |-> 1, j_max |-> 2]

\* args of decorated_function(*args) for the call self.t1_lim(w, n)
memo_args_bare(self, w, n) == <<w, n>>

memo_args(self, w, n) == <<self, w, n>>

\* f(*args) for f = t1_lim
memo_f(self, w, n) == Ewald_t1_lim(ContextOf(self), w, n)

NoValue == [none |-> TRUE]

IdleCaller ==
    [pc |-> "idle", self |-> "e1", w |-> 1, n |-> 1, val |-> NoValue,
     ret |-> NoValue, calls |-> 0]

InitMemo ==
    /\ mcache = << >>
    /\ thr = [c \in Callers |-> IdleCaller]
    /\ writes = << >>

ArgsOf(t) == memo_args(t.self, t.w, t.n)

\* a caller enters decorated_function(self, w, n)
MemoCall ==
    \E c \in Callers, self \in Selves, w \in {1}, n \in {-1, 1} :
        /\ thr[c].pc = "idle"
        /\ thr[c].calls < MaxMemoCalls
        /\ thr' = [thr EXCEPT ![c] = [pc |-> "check", self |-> self, w |-> w, n |-> n,
                                      val |-> NoValue, ret |-> NoValue,
                                      calls |-> @.calls + 1]]
        /\ UNCHANGED <<mcache, writes>>
        /\ UNCHANGED outsideMemo

\* if args in cache
MemoCheck ==
    \E c \in Callers :
        /\ thr[c].pc = "check"
        /\ thr' = [thr EXCEPT ![c].pc = IF ArgsOf(thr[c]) \in DOMAIN mcache
                                        THEN "read" ELSE "compute"]
        /\ UNCHANGED <<mcache, writes>>
        /\ UNCHANGED outsideMemo

\* the right-hand side of cache[args] = f(*args)
MemoCompute ==
    \E c \in Callers :
        /\ thr[c].pc = "compute"
        /\ thr' = [thr EXCEPT ![c].pc = "store",
                              ![c].val = memo_f(thr[c].self, thr[c].w, thr[c].n)]
        /\ UNCHANGED <<mcache, writes>>
        /\ UNCHANGED outsideMemo

\* the assignment cache[args] = ...
MemoStore ==
    \E c \in Callers :
        LET key == ArgsOf(thr[c])
            before == IF key \in DOMAIN writes THEN writes[key]
                      ELSE [count |-> 0, vals |-> {}]
        IN  /\ thr[c].pc = "store"
            /\ mcache' = (key :> thr[c].val) @@ mcache
            /\ writes' = (key :> [count |-> before.count + 1,
                                  vals |-> before.vals \cup {thr[c].val}]) @@ writes
            /\ thr' = [thr EXCEPT ![c].pc = "read"]
            /\ UNCHANGED outsideMemo

\* return cache[args]
MemoReturn ==
    \E c \in Callers :
        /\ thr[c].pc = "read"
        /\ thr' = [thr EXCEPT ![c].pc = "idle", ![c].ret = mcache[ArgsOf(thr[c])]]
        /\ UNCHANGED <<mcache, writes>>
        /\ UNCHANGED outsideMemo

NextMemo ==
    \/ MemoCall
    \/ MemoCheck
    \/ MemoCompute
    \/ MemoStore
    \/ MemoReturn

\* ============================ the functionals of (w, q) and what they change
\* the fields set by Ewald.__init__ and, in lattice, by the constructor of the cell;
\* written holds the names of the fields assigned since construction
Engines ==
    [q : Wavevectors, pos : {Origin, <<1, 0>>}, E : {1}, j_max : {2},
     lattice : [class : {"Square"}, neighbours : {1}, spacing : {1}, radius : {1},
                wp : {3}, loss : {0}],
     written : {{}}]

NoEngineCall == [op |-> "none", w |-> <<0, 0>>, count |-> 0]

Functionals == {"interactionMatrix", "eigenproblem", "determinant", "calcExtinction"}

\* the attributes of self, or of the cell, that the body of a functional or a
\* method it calls assigns: the only assignments to attributes are in __init__
Assigned_q(op) == IF op \in Functionals THEN {"q"} ELSE {}

Assigned(op) == {}

\* the object after a call of op
AfterCall(self, op) == [self EXCEPT !.written = @ \cup Assigned(op)]

\* a key of the caches of t1_lim and t2_lim: args = (self, w, n)
CacheKey(fn, self, w, n) == <<fn, self, w, n>>

\* the calls of decorated methods made by dyadicSumEwald on the object self at
\* frequency w: t1_lim and t2_lim at n = 0 and n = 2 in the branch
\* norm(pos) == 0, none in the other branch
dyadicSumEwald_keys(self, pos, w) ==
    IF pos = Origin
    THEN {CacheKey(fn, self, w, n) : fn \in {"t1_lim", "t2_lim"}, n \in {0, 2}}
    ELSE {}

\* frequencies are written <<re, im>>: a real w and the complex w + 0j are the same
\* dict key
Real(w) == <<w, 0>>

\* determinant(w) takes w = [re, im] and calls eigenproblem(w[0] + 1j*w[1])
w_val(w) == <<w[1], w[2]>>

IdleEngine ==
    /\ engine = CHOOSE e \in Engines : e.q = Origin /\ e.pos = Origin
    /\ engineCache = {}
    /\ engineCall = NoEngineCall

InitEngine ==
    /\ engine \in Engines
    /\ engineCache = {}
    /\ engineCall = NoEngineCall

\* a functional is called on the context: op(w) = the call of interactionMatrix
\* beneath it
EngineCall(op, w, keys) ==
    /\ engineCall.count < MaxCalls
    /\ engineCall' = [op |-> op, w |-> w, count |-> engineCall.count + 1]
    /\ engine' = AfterCall(engine, op)
    /\ engineCache' = engineCache \cup keys
    /\ UNCHANGED outsideEngine

EngineInteractionMatrix ==
    \E w \in Frequencies :
        EngineCall("interactionMatrix", Real(w),
                   dyadicSumEwald_keys(<<"self", 0, engine.q>>, engine.pos, Real(w)))

EngineEigenproblem ==
    \E w \in Frequencies :
        EngineCall("eigenproblem", Real(w),
                   dyadicSumEwald_keys(<<"self", 0, engine.q>>, engine.pos, Real(w)))

EngineDeterminant ==
    \E w \in Frequencies \X {0, 1} :
        EngineCall("determinant", w,
                   dyadicSumEwald_keys(<<"self", 0, engine.q>>, engine.pos, w_val(w)))

\* Extinction.calcExtinction(w, q) builds an Ewald object of its own on the cell,
\* at position [0, 0], and calls its interactionMatrix
EngineCalcExtinction ==
    \E w \in Frequencies, q \in Wavevectors :
        EngineCall("calcExtinction", Real(w),
                   dyadicSumEwald_keys(<<"Ewald", engineCall.count + 1, q>>, Origin,
                                       Real(w)))

NextEngine ==
    \/ EngineInteractionMatrix
    \/ EngineEigenproblem
    \/ EngineDeterminant
    \/ EngineCalcExtinction

\* ================================= the dyadic self-sum at zero separation
\* largest real or imaginary part of a harmonic
MaxH == 1

Harmonics == (-MaxH..MaxH) \X (-MaxH..MaxH)

\* the harmonics both assemblers start from: h_0 and h_pos2 are sums of t0, t1_lim
\* and t2_lim, h_neg2 = -np.conjugate(h_pos2)
h_neg2(h_pos2) == CNeg(conjugate(h_pos2))

Components(a, b, c) == [xx |-> a, xy |-> b, yy |-> c]

\* library dyadicSumEwald, branch norm(pos) == 0, times 16:
\* -k**2 * (+(1j/8)*h_0 + (1j/16)*(h_neg2+h_pos2)), -k**2 * (+(1/16)*(h_neg2-h_pos2)),
\* -k**2 * (+(1j/8)*h_0 - (1j/16)*(h_neg2+h_pos2))
Ewald_dyadicSumEwald_self(k, h_0, h_pos2) ==
    LET both == CAdd(h_neg2(h_pos2), h_pos2)
        diff == CAdd(h_neg2(h_pos2), CNeg(h_pos2))
    IN  Components(
            CScale(-(k * k), CAdd(CMul(<<0, 2>>, h_0), CMul(<<0, 1>>, both))),
            CScale(-(k * k), diff),
            CScale(-(k * k), CAdd(CMul(<<0, 2>>, h_0), CNeg(CMul(<<0, 1>>, both)))))

\* test-script reducedDyadicSum, times 16: -(1j/8)*h_0 - (1j/16)*(h_neg2+h_pos2),
\* -(1/16)*(h_neg2-h_pos2), -(1j/8)*h_0 + (1j/16)*(h_neg2+h_pos2)
Test_reducedDyadicSum(h_0, h_pos2) ==
    LET both == CAdd(h_neg2(h_pos2), h_pos2)
        diff == CAdd(h_neg2(h_pos2), CNeg(h_pos2))
    IN  Components(
            CAdd(CNeg(CMul(<<0, 2>>, h_0)), CNeg(CMul(<<0, 1>>, both))),
            CNeg(diff),
            CAdd(CNeg(CMul(<<0, 2>>, h_0)), CMul(<<0, 1>>, both)))

NoComponents == [none |-> TRUE]

InitDyad ==
    /\ dyadIn \in [k : Frequencies, h_0 : Harmonics, h_pos2 : Harmonics]
    /\ dyadLib = NoComponents
    /\ dyadTest = NoComponents

IdleDyad ==
    /\ dyadIn = [k |-> 1, h_0 |-> Origin, h_pos2 |-> Origin]
    /\ dyadLib = NoComponents
    /\ dyadTest = NoComponents

LibDyadicSumEwald ==
    /\ dyadLib = NoComponents
    /\ dyadLib' = Ewald_dyadicSumEwald_self(dyadIn.k, dyadIn.h_0, dyadIn.h_pos2)
    /\ UNCHANGED <<dyadIn, dyadTest>>
    /\ UNCHANGED outsideDyad

TestReducedDyadicSum ==
    /\ dyadTest = NoComponents
    /\ dyadTest' = Test_reducedDyadicSum(dyadIn.h_0, dyadIn.h_pos2)
    /\ UNCHANGED <<dyadIn, dyadLib>>
    /\ UNCHANGED outsideDyad

NextDyad ==
    \/ LibDyadicSumEwald
    \/ TestReducedDyadicSum

\* ============================ the blocks of Interaction.interactionMatrix
\* the scaling factors of a supercell
Scalings == {0, 1, 2}

\* the two vectors getLattice('bravais', ...) steps along, in the units of the
\* variant: Square in units of (1, 1), the three others in units of (1/2, sqrt(3)/2),
\* the units getUnitCell is written in
latticeBasis(c, s, sc) ==
    CASE c = "Square" -> <<<<0, sc * s>>, <<sc * s, 0>>>>
      [] c = "Triangle" -> <<<<s, s>>, <<2 * s, 0>>>>
      [] c = "SimpleHoneycomb" -> <<<<3 * sc * s, sc * s>>, <<3 * sc * s, -(sc * s)>>>>
      [] c = "Honeycomb" -> <<<<6 * sc * s, 0>>, <<3 * sc * s, 3 * sc * s>>>>

\* intercell = self.cell.getLattice('bravais', False) as vectors n*t1 + m*t2
intercell(self) ==
    LET idx == getLattice(self.class, self.neighbours, "bravais", FALSE).value
        t == latticeBasis(self.class, self.spacing, self.scaling)
    IN  [i \in DOMAIN idx |-> Vec(idx[i], t[1], t[2])]

\* intracell = self.cell.getUnitCell(), the positions of its particles
intracell(self) == getUnitCell(self.class, self.spacing).value

\* one summand self.green(w, distance) * np.exp(1j * np.dot(self.q, inter))
BlochTerm(q, distance, inter) == [green |-> distance, phase |-> Dot(q, inter)]

\* sum([green(w, sep + inter) * exp(1j*dot(q, inter)) for inter in points]), kept as
\* the list of its summands
green_sum(self, sep, pts) ==
    [i \in DOMAIN pts |-> BlochTerm(self.q, CAdd(sep, pts[i]), pts[i])]

\* itertools.combinations(indices, 2), the particles numbered from 1
combinations2(k) ==
    SelectSeq([i \in 1..(k * k) |-> <<((i - 1) \div k) + 1, ((i - 1) % k) + 1>>],
              LAMBDA p : p[1] < p[2])

\* the block H[2n:2n+2, 2m:2m+2]: -intracell[n].pos + intracell[m].pos + inter
upperBlock(self, n, m) ==
    green_sum(self, CAdd(CNeg(intracell(self)[n]), intracell(self)[m]), intercell(self))

\* the block H[2m:2m+2, 2n:2n+2]: -intracell[m].pos + intracell[n].pos + inter
lowerBlock_copied(self, n, m) ==
    green_sum(self, CAdd(CNeg(intracell(self)[n]), intracell(self)[m]), intercell(self))

lowerBlock(self, n, m) ==
    green_sum(self, CAdd(CNeg(intracell(self)[m]), intracell(self)[n]), intercell(self))

\* the points the diagonal loop keeps: np.linalg.norm(inter) != 0
keptPoints_all(pts) == pts

keptPoints(pts) == SelectSeq(pts, NotOrigin)

\* to_sum of a diagonal block: green(w, inter) * exp(1j*dot(q, inter))
diagonalBlock(self) == green_sum(self, Origin, keptPoints(intercell(self)))

Assignment(b, v) == [block |-> b, value |-> v]

\* np.zeros((matrix_size, matrix_size)) as 2 x 2 blocks, none assigned yet
zeros(k) == [b \in (1..k) \X (1..k) |-> [value |-> << >>, assigned |-> 0]]

\* H[...] = value, counting the assignments each block received
RECURSIVE StoreAll(_, _)
StoreAll(H, as) ==
    IF as = << >> THEN H
    ELSE StoreAll([H EXCEPT ![Head(as).block] =
                        [value |-> Head(as).value, assigned |-> @.assigned + 1]],
                  Tail(as))

\* the first loop: for n, m in combinations: block (n, m), then block (m, n)
RECURSIVE offDiagonalLoop(_, _)
offDiagonalLoop(self, pairs) ==
    IF pairs = << >> THEN << >>
    ELSE <<Assignment(<<Head(pairs)[1], Head(pairs)[2]>>,
                      upperBlock(self, Head(pairs)[1], Head(pairs)[2])),
           Assignment(<<Head(pairs)[2], Head(pairs)[1]>>,
                      lowerBlock(self, Head(pairs)[1], Head(pairs)[2]))>>
         \o offDiagonalLoop(self, Tail(pairs))

\* the second loop: for n in indices: block (n, n)
diagonalLoop(self, k) == [n \in 1..k |-> Assignment(<<n, n>>, diagonalBlock(self))]

\* Interaction.interactionMatrix by blocks: one sum for cell size 1, otherwise zeros
\* filled by the two loops
Interaction_interactionMatrix_blocks(self) ==
    LET k == getCellSize(self.class)
    IN  IF k = 1
        THEN StoreAll(zeros(1),
                      <<Assignment(<<1, 1>>, green_sum(self, Origin, intercell(self)))>>)
        ELSE StoreAll(zeros(k),
                      offDiagonalLoop(self, combinations2(k)) \o diagonalLoop(self, k))

NoMatrix == << >>

Interactions ==
    [q : Wavevectors, class : Variants, neighbours : 0..MaxN, spacing : Spacings,
     scaling : Scalings]

InitInter ==
    /\ imSelf \in Interactions
    /\ imH = NoMatrix

IdleInter ==
    /\ imSelf = [q |-> Origin, class |-> "Square", neighbours |-> 0, spacing |-> 1,
                 scaling |-> 1]
    /\ imH = NoMatrix

InteractionMatrixBlocks ==
    /\ imH = NoMatrix
    /\ imH' = Interaction_interactionMatrix_blocks(imSelf)
    /\ UNCHANGED imSelf
    /\ UNCHANGED outsideInter

NextInter ==
    \/ InteractionMatrixBlocks

\* ===================================================== determinant_solver
\* sp.optimize.root(array_int.determinant, w, method="lm"): an OptimizeResult whose x
\* is the root when the solver converged and its last iterate otherwise
OptimizeResult(q, w, converged) ==
    [x |-> [q |-> q, from |-> w, kind |-> IF converged THEN "root" ELSE "last iterate"],
     success |-> converged]

\* roots.append(ans) with ans = sp.optimize.root(...).x
roots_append_converged(roots, res) == IF res.success THEN Append(roots, res.x) ELSE roots

roots_append(roots, res) == Append(roots, res.x)

\* the loop for q in cell.getBrillouinZone(resolution)
RECURSIVE solverLoop(_, _, _, _, _)
solverLoop(path, conv, w, k, roots) ==
    IF k > Len(path) THEN roots
    ELSE solverLoop(path, conv, w, k + 1,
                    roots_append(roots, OptimizeResult(path[k], w, conv[k])))

\* determinant_solver(w, cell, resolution): an exception of getBrillouinZone, of
\* getSpacing or of the determinant the root finder calls leaves the function
determinant_solver_roots(self, conv) ==
    LET bz == getBrillouinZone(self.class, self.resolution, self.takesFloat)
        det == Ewald_eigenproblem(self.class, self.neighbours, Origin).matrix
    IN  IF bz.status = "raised" THEN bz
        ELSE IF bz.value = << >> THEN Returned(<< >>)
        ELSE IF getSpacing(self.class).status = "raised" THEN getSpacing(self.class)
        ELSE IF det.status = "raised" THEN det
        ELSE Returned(solverLoop(bz.value, conv, self.w, 1, << >>))

NotSolved == [status |-> "none", value |-> << >>]

Solvers ==
    [class : Variants, neighbours : {0, 1}, resolution : 0..MaxRes, takesFloat : BOOLEAN,
     w : Frequencies]

\* the outcomes of the root finder along a path, which has at most MaxRes points
Convergences == [1..MaxRes -> BOOLEAN]

InitSolver ==
    /\ dsSelf \in Solvers
    /\ dsConv = [k \in 1..MaxRes |-> TRUE]
    /\ dsRoots = NotSolved

IdleSolver ==
    /\ dsSelf = [class |-> "Square", neighbours |-> 0, resolution |-> 0,
                 takesFloat |-> TRUE, w |-> 1]
    /\ dsConv = [k \in 1..MaxRes |-> TRUE]
    /\ dsRoots = NotSolved

DeterminantSolver ==
    /\ dsRoots = NotSolved
    /\ \E conv \in Convergences :
          /\ dsConv' = conv
          /\ dsRoots' = determinant_solver_roots(dsSelf, conv)
    /\ UNCHANGED dsSelf
    /\ UNCHANGED outsideSolver

NextSolver ==
    \/ DeterminantSolver

\* ========================================= the conversion constant ev
\* the three modules of the repository
Modules == {"plasmonic_lattice", "ewald_test", "_extended_cell"}

\* how the interpreter comes to run a module: as a script, by import, as a pool
\* worker forked from the script, or as a pool worker spawned anew (which imports the
\* script's file under another name)
Runs == {"script", "import", "fork worker", "spawn worker"}

\* (1.602*10**-19 * 2 * np.pi)/(6.626*10**-34 * 2.997*10**8), in thousands
EvValue == 5068

\* the components that compute k = w*ev or read ev
Readers == {"polarisability", "green", "ewald", "light line"}

Unset == [status |-> "unset", value |-> 0, assignments |-> 0]

\* ev = ... : the global is bound to the value
assign_ev(g) == [status |-> "set", value |-> EvValue, assignments |-> g.assignments + 1]

\* the statements at module level: only the test script assigns ev there
moduleLevel(m, g) == IF m = "ewald_test" THEN assign_ev(g) ELSE g

\* the block under if __name__ == "__main__": assigns ev in all three modules
mainBlock(m, g) == assign_ev(g)

\* whether __name__ is "__main__": in the script, and in a forked worker, which is a
\* copy of the script's process made by Pool() inside that block
RunsMain(run) == run \in {"script", "fork worker"}

\* k = w*ev: a read of the global ev, NameError when it is unbound
read_ev(g) == IF g.status = "set" THEN Returned(g.value) ELSE Raised("NameError")

NotRead == [status |-> "none", value |-> 0]

InitLoad ==
    /\ proc \in [module : Modules, run : Runs]
    /\ evPc = "start"
    /\ evGlobal = Unset
    /\ evReads = [c \in Readers |-> NotRead]

IdleLoad ==
    /\ proc = [module |-> "plasmonic_lattice", run |-> "script"]
    /\ evPc = "start"
    /\ evGlobal = Unset
    /\ evReads = [c \in Readers |-> NotRead]

\* the interpreter executes the module's top-level statements
ModuleLevel ==
    /\ evPc = "start"
    /\ evGlobal' = moduleLevel(proc.module, evGlobal)
    /\ evPc' = IF RunsMain(proc.run) THEN "main" ELSE "ready"
    /\ UNCHANGED <<proc, evReads>>
    /\ UNCHANGED outsideLoad

\* the assignments that open the __main__ block
MainBlock ==
    /\ evPc = "main"
    /\ evGlobal' = mainBlock(proc.module, evGlobal)
    /\ evPc' = "ready"
    /\ UNCHANGED <<proc, evReads>>
    /\ UNCHANGED outsideLoad

\* a component evaluates k = w*ev for the first time
EvaluateK ==
    /\ evPc = "ready"
    /\ \E c \in Readers :
          /\ evReads[c] = NotRead
          /\ evReads' = [evReads EXCEPT ![c] = read_ev(evGlobal)]
    /\ UNCHANGED <<proc, evPc, evGlobal>>
    /\ UNCHANGED outsideLoad

NextLoad ==
    \/ ModuleLevel
    \/ MainBlock
    \/ EvaluateK

\* ===================================== the integrals of the real-space limit
\* largest truncation j_max of the series, largest harmonic order, and the depth at
\* which the interpreter gives up a chain of recursive calls
MaxJ == 2

MaxOrder == 3

MaxDepth == 5

\* library integralFunc(separation, w), times j_max! * (2E)**(2*j_max): the loop adds
\* each term (1/j!) * (k/(2E))**(2j) * expn(j+1, separation**2 * E**2) to _sum
RECURSIVE integralLoop(_, _, _, _, _)
integralLoop(self, d2, w, j, _sum) ==
    IF j > self.j_max THEN _sum
    ELSE integralLoop(self, d2, w, j + 1,
            _sum + (factorial(self.j_max) \div factorial(j)) * Pow(w, 2 * j)
                * Pow(2 * self.E, 2 * (self.j_max - j))
                * expn(j + 1, d2 * self.E * self.E))

integralFunc(self, d2, w) == integralLoop(self, d2, w, 0, 0)

\* whether the test script's t2_I_n(dist, w, n) returns: n == 1 and n == 2 return at
\* once, every other n calls t2_I_n at n-1 and at n-2; a chain of more than
\* MaxDepth calls ends in RecursionError
RECURSIVE t2_I_n_returns(_, _)
t2_I_n_returns(n, depth) ==
    IF depth > MaxDepth THEN FALSE
    ELSE IF n = 1 \/ n = 2 THEN TRUE
    ELSE t2_I_n_returns(n - 1, depth + 1) /\ t2_I_n_returns(n - 2, depth + 1)

\* the orders t2_I_n is called with while t2_I_n(dist, w, n) is evaluated
RECURSIVE t2_I_n_orders(_, _)
t2_I_n_orders(n, depth) ==
    IF depth > MaxDepth THEN {}
    ELSE IF n = 1 \/ n = 2 THEN {n}
    ELSE {n} \cup t2_I_n_orders(n - 1, depth + 1) \cup t2_I_n_orders(n - 2, depth + 1)

\* the test script's t2_I_n as a call: its value, or RecursionError
Test_t2_I_n(self, d2, w, n) ==
    IF t2_I_n_returns(n, 0)
    THEN [status |-> "ok", value |-> t2_I_n(self, d2, w, n), orders |-> t2_I_n_orders(n, 0)]
    ELSE [status |-> "raised", value |-> "RecursionError", orders |-> t2_I_n_orders(n, 0)]

\* the order of the integral a summand of t2_lim(w, n) is multiplied by: t2_I_0 for
\* n == 0; otherwise t2_I_2 in the library, t2_I_n(R_norm, w, abs(n)) in the test
\* script
t2_lim_integral(self, n) ==
    IF n = 0 THEN 0 ELSE IF self.lattice = "Square" THEN 2 ELSE abs(n)

\* the harmonic h_neg2 of the zero-separation dyadic sum as both sources take it,
\* -np.conjugate(h_pos2) with h_pos2 = t1_lim(w, 2) + t2_lim(w, 2), beside the sum
\* t1_lim(w, -2) + t2_lim(w, -2) of the line they comment out
t1_lim_of(self, w, n) ==
    IF self.lattice = "Square" THEN Ewald_t1_lim(self, w, n) ELSE Test_t1_lim(self, w, n)

h_neg2_both(self, w) ==
    [shortcut |-> CNeg(conjugate(CAdd(t1_lim_of(self, w, 2), Ewald_t2_lim(self, w, 2)))),
     direct |-> CAdd(t1_lim_of(self, w, -2), Ewald_t2_lim(self, w, -2))]

IntegralCalls == {"integralFunc", "t2IntegralFunc", "t2_I_2", "t2_I_n", "t2_lim", "h_neg2"}

NotCalled == [status |-> "none"]

IntegralContexts ==
    [lattice : {"Square", "Lattice"}, q : Wavevectors, N : {1}, E : {1}, j_max : 0..MaxJ]

IntegralArgs == [d2 : {1, 2}, w : Frequencies, n : (-MaxOrder)..MaxOrder, j_min : {0, 1}]

InitInteg ==
    /\ igSelf \in IntegralContexts
    /\ igArgs \in IntegralArgs
    /\ igValues = [f \in IntegralCalls |-> NotCalled]

IdleInteg ==
    /\ igSelf = [lattice |-> "Square", q |-> Origin, N |-> 1, E |-> 1, j_max |-> 0]
    /\ igArgs = [d2 |-> 1, w |-> 1, n |-> 0, j_min |-> 0]
    /\ igValues = [f \in IntegralCalls |-> NotCalled]

\* a first call of f with the arguments of the state leaves its result
IntegralCall(f, result) ==
    /\ igValues[f] = NotCalled
    /\ igValues' = [igValues EXCEPT ![f] = result]
    /\ UNCHANGED <<igSelf, igArgs>>
    /\ UNCHANGED outsideInteg

CallIntegralFunc ==
    IntegralCall("integralFunc",
                 [status |-> "ok", value |-> integralFunc(igSelf, igArgs.d2, igArgs.w)])

CallT2IntegralFunc ==
    IntegralCall("t2IntegralFunc",
                 [status |-> "ok",
                  value |-> t2IntegralFunc(igSelf, igArgs.d2, igArgs.w, igArgs.j_min)])

CallT2I2 ==
    /\ igSelf.lattice = "Square"
    /\ IntegralCall("t2_I_2",
                    [status |-> "ok", value |-> t2_I_2(igSelf, igArgs.d2, igArgs.w)])

CallT2In ==
    /\ igSelf.lattice = "Lattice"
    /\ igArgs.n >= 0
    /\ IntegralCall("t2_I_n", Test_t2_I_n(igSelf, igArgs.d2, igArgs.w, igArgs.n))

CallT2Lim ==
    IntegralCall("t2_lim", [status |-> "ok", value |-> t2_lim_integral(igSelf, igArgs.n)])

CallHNeg2 ==
    IntegralCall("h_neg2", [status |-> "ok", value |-> h_neg2_both(igSelf, igArgs.w)])

NextInteg ==
    \/ CallIntegralFunc
    \/ CallT2IntegralFunc
    \/ CallT2I2
    \/ CallT2In
    \/ CallT2Lim
    \/ CallHNeg2

\* ============================ the caches of t1_lim and t2_lim across contexts
\* Ewald objects alive at once: they differ in q (e2), in the splitting parameter E
\* (e3) or in the lattice (e4) from e1
Instances == {"e1", "e2", "e3", "e4"}

InstanceContext(self) ==
    [lattice |-> "Square",
     q |-> IF self = "e2" THEN <<1, 2>> ELSE <<1, 0>>,
     N |-> IF self = "e4" THEN 0 ELSE 1,
     E |-> IF self = "e3" THEN 2 ELSE 1,
     j_max |-> 2]

Decorated == {"t1_lim", "t2_lim"}

\* f(*args) for the two decorated methods of the library
undecorated(fn, self, w, n) ==
    IF fn = "t1_lim" THEN Ewald_t1_lim(InstanceContext(self), w, n)
    ELSE Ewald_t2_lim(InstanceContext(self), w, n)

\* args of decorated_function(*args) for the call self.fn(w, n): self is part of it,
\* and an Ewald object hashes and compares by identity
decorated_args_bare(self, w, n) == <<w, n>>

decorated_args(self, w, n) == <<self, w, n>>

\* decorated_function(*args) on the dict `cache` of one decorated method:
\* if args in cache: return cache[args]; else: cache[args] = f(*args); return
\* cache[args]
decorated_function(dict, fn, self, w, n) ==
    LET args == decorated_args(self, w, n)
        after == IF args \in DOMAIN dict THEN dict
                 ELSE (args :> undecorated(fn, self, w, n)) @@ dict
    IN  [cache |-> after, ret |-> after[args], hit |-> args \in DOMAIN dict]

NoDecoratedCall == [fn |-> "none"]

InitShared ==
    /\ shCache = [fn \in Decorated |-> << >>]
    /\ shCall = NoDecoratedCall

IdleShared == InitShared

\* one call self.fn(w, n), from entry to return
DecoratedCall(fn) ==
    \E self \in Instances, w \in {1}, n \in {2} :
        LET r == decorated_function(shCache[fn], fn, self, w, n)
        IN  /\ shCache' = [shCache EXCEPT ![fn] = r.cache]
            /\ shCall' = [fn |-> fn, self |-> self, w |-> w, n |-> n,
                          ret |-> r.ret, hit |-> r.hit]
            /\ UNCHANGED outsideShared

CallT1Lim == DecoratedCall("t1_lim")

CallT2LimDecorated == DecoratedCall("t2_lim")

NextShared ==
    \/ CallT1Lim
    \/ CallT2LimDecorated

\* ======================= the matrix of the extinction and of the eigenproblem
\* a complex 2 x 2 array, rows of entries
Matrix2(a, b, c, d) == <<<<a, b>>, <<c, d>>>>

\* Ewald.interactionMatrix(w) at the origin: np.array([[xx_comp, xy_comp], [xy_comp,
\* yy_comp]]) of dyadicSumEwald, times 16, for harmonics h_0 and h_pos2 and a complex
\* frequency w (ev = 1): the factor -k**2 is -w*w
interactionMatrix_at(h, w) ==
    LET comp == Ewald_dyadicSumEwald_self(1, h.h_0, h.h_pos2)
        k2 == CMul(w, w)
    IN  Matrix2(CMul(k2, comp.xx), CMul(k2, comp.xy), CMul(k2, comp.xy), CMul(k2, comp.yy))

\* 1/getPolarisability(w): with permittivity 1 - wp**2/(w**2 - 1j*loss*w) it is
\* (1 - 2*(w**2 - 1j*loss*w)/wp**2)/(2 pi r**2) - 0.125j*k**2; here times
\* 2 pi r**2 wp**2, in units where 0.25 pi r**2 wp**2 ev**2 = 1
reciprocalPolarisability(p, w) ==
    LET w2 == CMul(w, w)
    IN  CAdd(CAdd(<<p.wp * p.wp, 0>>,
                  CScale(-2, CAdd(w2, CNeg(CMul(<<0, p.loss>>, w))))),
             CNeg(CMul(<<0, 1>>, w2)))

\* one pass of the loop of calcExtinction: H_matrix[i][i] = H_matrix[i][i] - 1/alpha
\* (i counted from 1)
reduceEntry_row(H, i, x) == [H EXCEPT ![i] = [j \in DOMAIN H[i] |-> CAdd(H[i][j], CNeg(x))]]

reduceEntry(H, i, x) == [H EXCEPT ![i][i] = CAdd(H[i][i], CNeg(x))]

\* for i in range(len(H_matrix[0])): ...
RECURSIVE reduceLoop(_, _, _)
reduceLoop(H, i, x) ==
    IF i > Len(H[1]) THEN H ELSE reduceLoop(reduceEntry(H, i, x), i + 1, x)

\* the array Extinction.calcExtinction(w, q) hands to eigvals
calcExtinction_matrix(c, h, p, w) ==
    LET shape == Extinction_calcExtinction(c, 1, 3, TRUE).matrix
    IN  IF shape.status = "raised" THEN shape
        ELSE Returned(reduceLoop(interactionMatrix_at(h, w), 1, reciprocalPolarisability(p, w)))

\* np.identity(n)/alpha and the difference of two arrays of the same shape
identityOver(n, x) == [i \in 1..n |-> [j \in 1..n |-> IF i = j THEN x ELSE <<0, 0>>]]

arrayMinus(A, B) == [i \in DOMAIN A |-> [j \in DOMAIN A[i] |-> CAdd(A[i][j], CNeg(B[i][j]))]]

\* Ewald.eigenproblem(w) = interactionMatrix(w) - identity(2*getCellSize())/alpha(w)
eigenproblem(c, h, p, w) ==
    LET shape == Ewald_eigenproblem(c, 1, Origin).matrix
    IN  IF shape.status = "raised" THEN shape
        ELSE Returned(arrayMinus(interactionMatrix_at(h, w),
                                 identityOver(2 * getCellSize(c),
                                              reciprocalPolarisability(p, w))))

\* np.linalg.det of a 2 x 2 array
det(M) == CAdd(CMul(M[1][1], M[2][2]), CNeg(CMul(M[1][2], M[2][1])))

\* Ewald.determinant(w): w_val = w[0] + 1j*w[1]; result = det(eigenproblem(w_val));
\* return [result.real, result.imag]
determinant(c, h, p, w) ==
    LET E == eigenproblem(c, h, p, w_val(w))
    IN  IF E.status = "raised" THEN E ELSE Returned(<<det(E.value)[1], det(E.value)[2]>>)

EigenCalls == {"calcExtinction", "eigenproblem", "determinant"}

EigenSelves ==
    [class : Variants, h_0 : Harmonics, h_pos2 : {<<1, 1>>, <<0, -1>>},
     wp : {3}, loss : {0, 1}]

InitEigen ==
    /\ egSelf \in EigenSelves
    /\ egW \in Frequencies \X {0, 1}
    /\ egOut = [f \in EigenCalls |-> NotCalled]

IdleEigen ==
    /\ egSelf = [class |-> "Square", h_0 |-> <<0, 0>>, h_pos2 |-> <<1, 1>>,
                 wp |-> 3, loss |-> 0]
    /\ egW = <<1, 0>>
    /\ egOut = [f \in EigenCalls |-> NotCalled]

EigenCall(f, result) ==
    /\ egOut[f] = NotCalled
    /\ egOut' = [egOut EXCEPT ![f] = result]
    /\ UNCHANGED <<egSelf, egW>>
    /\ UNCHANGED outsideEigen

\* calcExtinction(w, q) and eigenproblem(w) at the real frequency w = egW[1],
\* determinant([a, b]) at egW = [a, b]
CalcExtinctionMatrix ==
    EigenCall("calcExtinction",
              calcExtinction_matrix(egSelf.class, egSelf, egSelf, Real(egW[1])))

EigenproblemMatrix ==
    EigenCall("eigenproblem", eigenproblem(egSelf.class, egSelf, egSelf, Real(egW[1])))

DeterminantPair ==
    EigenCall("determinant", determinant(egSelf.class, egSelf, egSelf, egW))

NextEigen ==
    \/ CalcExtinctionMatrix
    \/ EigenproblemMatrix
    \/ DeterminantPair

\* ================================== the grid of the extinction plot
\* Extinction.__init__: wrange = np.linspace(wmin, wmax, resolution) has resolution
\* points, qrange = cell.getBrillouinZone(resolution)
Extinction_init(self) ==
    LET qrange == getBrillouinZone(self.class, self.resolution, self.takesFloat)
    IN  IF qrange.status = "raised" THEN qrange
        ELSE Returned([wrange |-> self.resolution, qrange |-> Len(qrange.value)])

\* loopExtinction: wq_vals = [(w, q) for w in wrange for q in qrange], one value
\* of calcExtinction for each, gathered by pool.map in one list
loopExtinction_count(grid) == grid.wrange * grid.qrange

\* np.array(raw_results).reshape((resolution, resolution)) of count values
reshape(count, resolution) ==
    IF count = resolution * resolution THEN Returned(<<resolution, resolution>>)
    ELSE Raised("ValueError")

\* Extinction(cell, resolution, wmin, wmax).plotExtinction(): an exception of the
\* constructor or of a calcExtinction in the pool leaves the function
plotExtinction(self) ==
    LET grid == Extinction_init(self)
        each == Extinction_calcExtinction(self.class, 1, self.resolution,
                                          self.takesFloat).matrix
        count == loopExtinction_count(grid.value)
    IN  IF grid.status = "raised" THEN grid
        ELSE IF count > 0 /\ each.status = "raised" THEN each
        ELSE reshape(count, self.resolution)

PlotCalls == {"__init__", "plotExtinction"}

Plots == [class : Variants, resolution : 0..MaxRes, takesFloat : BOOLEAN]

InitPlot ==
    /\ plSelf \in Plots
    /\ plOut = [f \in PlotCalls |-> NotCalled]

IdlePlot ==
    /\ plSelf = [class |-> "Square", resolution |-> 0, takesFloat |-> TRUE]
    /\ plOut = [f \in PlotCalls |-> NotCalled]

ExtinctionInit ==
    /\ plOut["__init__"] = NotCalled
    /\ plOut' = [plOut EXCEPT !["__init__"] = Extinction_init(plSelf)]
    /\ UNCHANGED plSelf
    /\ UNCHANGED outsidePlot

PlotExtinction ==
    /\ plOut["plotExtinction"] = NotCalled
    /\ plOut' = [plOut EXCEPT !["plotExtinction"] = plotExtinction(plSelf)]
    /\ UNCHANGED plSelf
    /\ UNCHANGED outsidePlot

NextPlot ==
    \/ ExtinctionInit
    \/ PlotExtinction

\* ------------------------------------------------------- the specifications
\* a part of the model that a specification does not exercise stays as built
IdleCell ==
    /\ cell = "Square"
    /\ neighbours = 0
    /\ request = NoCall
    /\ points = Returned(<< >>)
    /\ matrix = Returned(Scalar)
    /\ zeroSep = FALSE

IdleEwald ==
    /\ ctx = [lattice |-> "Square", q |-> <<0, 0>>, N |-> 1, E |-> 1, j_max |-> 2]
    /\ cache = {}
    /\ cacheI = {}
    /\ evals = << >>
    /\ series = << >>
    /\ returned = {}
    /\ ncalls = 0

\* the unit-cell classes, Interaction and Ewald.interactionMatrix
Init == InitCell /\ IdleEwald /\ InitRecip /\ InitSweep /\ InitMemo /\ IdleEngine /\ IdleDyad /\ IdleInter /\ IdleSolver /\ IdleLoad /\ IdleInteg /\ IdleShared /\ IdleEigen /\ IdlePlot

Next == NextCell

Spec == Init /\ [][Next]_vars

\* the self-term limits of one Ewald context and their caches
InitSpecEwald == IdleCell /\ InitEwald /\ InitRecip /\ InitSweep /\ InitMemo /\ IdleEngine /\ IdleDyad /\ IdleInter /\ IdleSolver /\ IdleLoad /\ IdleInteg /\ IdleShared /\ IdleEigen /\ IdlePlot

SpecEwald == InitSpecEwald /\ [][NextEwald]_vars

\* every part of the model as built; the construction of lattice and reciprocal
\* vectors starts here, and so do the sweeps and the concurrent callers
InitAtRest == IdleCell /\ IdleEwald /\ InitRecip /\ InitSweep /\ InitMemo /\ IdleEngine /\ IdleDyad /\ IdleInter /\ IdleSolver /\ IdleLoad /\ IdleInteg /\ IdleShared /\ IdleEigen /\ IdlePlot

SpecRecip == InitAtRest /\ [][NextRecip]_vars

\* a sweep over a grid under pool.map
SpecSweep == InitAtRest /\ [][NextSweep]_vars

\* concurrent callers of one decorated function
SpecMemo == InitAtRest /\ [][NextMemo]_vars

\* the functionals called on one Ewald context
InitSpecEngine ==
    IdleCell /\ IdleEwald /\ InitRecip /\ InitSweep /\ InitMemo /\ InitEngine /\ IdleDyad /\ IdleInter /\ IdleSolver /\ IdleLoad /\ IdleInteg /\ IdleShared /\ IdleEigen /\ IdlePlot

SpecEngine == InitSpecEngine /\ [][NextEngine]_vars

\* the two assemblers of the dyadic self-sum on the same harmonics
InitSpecDyad ==
    IdleCell /\ IdleEwald /\ InitRecip /\ InitSweep /\ InitMemo /\ IdleEngine /\ InitDyad /\ IdleInter /\ IdleSolver /\ IdleLoad /\ IdleInteg /\ IdleShared /\ IdleEigen /\ IdlePlot

SpecDyad == InitSpecDyad /\ [][NextDyad]_vars

\* Interaction.interactionMatrix block by block
InitSpecInter ==
    IdleCell /\ IdleEwald /\ InitRecip /\ InitSweep /\ InitMemo /\ IdleEngine /\ IdleDyad /\ InitInter /\ IdleSolver /\ IdleLoad /\ IdleInteg /\ IdleShared /\ IdleEigen /\ IdlePlot

SpecInter == InitSpecInter /\ [][NextInter]_vars

\* determinant_solver along a path
InitSpecSolver ==
    IdleCell /\ IdleEwald /\ InitRecip /\ InitSweep /\ InitMemo /\ IdleEngine /\ IdleDyad /\ IdleInter /\ InitSolver /\ IdleLoad /\ IdleInteg /\ IdleShared /\ IdleEigen /\ IdlePlot

SpecSolver == InitSpecSolver /\ [][NextSolver]_vars

\* one interpreter executing one module
InitSpecLoad ==
    IdleCell /\ IdleEwald /\ InitRecip /\ InitSweep /\ InitMemo /\ IdleEngine /\ IdleDyad /\ IdleInter /\ IdleSolver /\ InitLoad /\ IdleInteg /\ IdleShared /\ IdleEigen /\ IdlePlot

SpecLoad == InitSpecLoad /\ [][NextLoad]_vars

\* the integrals and limits of one context, each called once
InitSpecInteg ==
    IdleCell /\ IdleEwald /\ InitRecip /\ InitSweep /\ InitMemo /\ IdleEngine /\ IdleDyad /\ IdleInter /\ IdleSolver /\ IdleLoad /\ InitInteg /\ IdleShared /\ IdleEigen /\ IdlePlot

SpecInteg == InitSpecInteg /\ [][NextInteg]_vars

\* calls of t1_lim and t2_lim on several Ewald objects, one after another
SpecShared == InitAtRest /\ [][NextShared]_vars

\* the matrices of calcExtinction, eigenproblem and determinant on one context
InitSpecEigen ==
    IdleCell /\ IdleEwald /\ InitRecip /\ InitSweep /\ InitMemo /\ IdleEngine /\ IdleDyad /\ IdleInter /\ IdleSolver /\ IdleLoad /\ IdleInteg /\ IdleShared /\ InitEigen /\ IdlePlot

SpecEigen == InitSpecEigen /\ [][NextEigen]_vars

\* an Extinction object built and plotted once
InitSpecPlot ==
    IdleCell /\ IdleEwald /\ InitRecip /\ InitSweep /\ InitMemo /\ IdleEngine /\ IdleDyad /\ IdleInter /\ IdleSolver /\ IdleLoad /\ IdleInteg /\ IdleShared /\ IdleEigen /\ InitPlot

SpecPlot == InitSpecPlot /\ [][NextPlot]_vars

IsLatticeCall == request.op \in {"getLattice", "genBravais", "genReciprocal"}

\* C1: a point set requested with the origin excluded never holds the pair <<0, 0>>,
\* for every class and every truncation radius
C1_OriginExcluded ==
    (IsLatticeCall /\ request.origin = FALSE /\ points.status = "ok")
        => Origin \notin Range(points.value)

\* C2: negative-harmonic symmetry: whenever t1_lim (or t2_lim) was called at
\* orders n and -n, n in {1, 2, 3}, at the same frequency on one context, the
\* value at -n is -conjugate of the value at n, in the library and the test script
C2_NegativeHarmonic ==
    \A r \in returned, s \in returned :
        (r.fn = s.fn /\ r.w = s.w /\ r.n \in 1..3 /\ s.n = -r.n)
            => s.val = CNeg(conjugate(r.val))

\* C3: the body of the I_n recurrence is evaluated at most once per
\* (distance, frequency, n) on one context
C3_RecurrenceOnce == \A key \in DOMAIN evals : evals[key] <= 1

\* C4: the matrix interactionMatrix returns is square of size 2 * getCellSize(),
\* on the direct path and on the Ewald path
C4_MatrixSize ==
    (request.op = "interactionMatrix" /\ matrix.status = "ok")
        => matrix.value = Shape(2 * getCellSize(cell), 2 * getCellSize(cell))

\* C5: no call evaluates a general-distance term at separation 0
C5_NoZeroSeparation == ~zeroSep

Degenerate == cross(lat.a1, lat.a2) = 0

\* C6: a lattice object built from a degenerate pair (cross(a1, a2) = 0) is in the
\* failed state DegenerateLatticeError, and neither reciprocal vectors nor an
\* area term were produced from it
C6_DegenerateRejected ==
    (lat.class # "none" /\ Degenerate)
        => /\ lat.status = "DegenerateLatticeError"
           /\ recip.status # "ok"
           /\ areaTerm.status # "ok"

\* C7: when loopExtinction has returned, whatever the order in which the workers
\* finished, the value at flat index i*len(qrange)+j (counted from 0) of the list
\* it returned is the extinction of (wrange[i], qrange[j])
C7_GridOrder ==
    (sweepFn.name = "loopExtinction" /\ sweep.status = "ok")
        => /\ Len(Delivered) = sweepFn.nw * sweepFn.nq
           /\ \A i \in 0..(sweepFn.nw - 1), j \in 0..(sweepFn.nq - 1) :
                 Delivered[i * sweepFn.nq + j + 1] = calcExtinction(i, j)

\* loopExtinction returned on a 2 x 2 grid (or larger) although an item finished
\* before an item placed earlier in the grid
C7_Witness ==
    /\ sweepFn.name = "loopExtinction"
    /\ sweep.status = "ok"
    /\ sweepFn.nw >= 2 /\ sweepFn.nq >= 2
    /\ arrival.outOfOrder

\* C8: under every interleaving of the callers of one decorated function, every
\* value returned for (self, w, n) is f(self, w, n), every entry of the cache is f
\* of its key, and all the stores made under one key stored the same value
C8_MemoizeRace ==
    /\ \A c \in Callers :
          thr[c].ret # NoValue => thr[c].ret = memo_f(thr[c].self, thr[c].w, thr[c].n)
    /\ \A self \in Selves, w \in {1}, n \in {-1, 1} :
          memo_args(self, w, n) \in DOMAIN mcache
              => mcache[memo_args(self, w, n)] = memo_f(self, w, n)
    /\ \A key \in DOMAIN writes : Cardinality(writes[key].vals) <= 1

\* two callers missed on the same key, both computed and stored, and both returned
C8_Witness ==
    /\ thr["c1"].ret # NoValue /\ thr["c2"].ret # NoValue
    /\ thr["c1"].val # NoValue /\ thr["c2"].val # NoValue
    /\ ArgsOf(thr["c1"]) = ArgsOf(thr["c2"])
    /\ writes[ArgsOf(thr["c1"])].count >= 2

\* C9: when a sweep is over, by return or by exception, the caller holds the
\* result of every item whose evaluation did not fail
C9_PartialResults ==
    sweep.status \in {"ok", "raised"}
        => \A k \in DOMAIN tasks \ bad :
              /\ k \in DOMAIN Delivered
              /\ Delivered[k] = Evaluate(sweepFn.name, tasks[k])

\* C10: the reciprocal vectors produced from a non-degenerate pair are finite and
\* dual to it: a1.b1 = a2.b2 = 2*pi and a1.b2 = a2.b1 = 0 (b in units of 2*pi is
\* num/den)
C10_Duality ==
    (recip.status = "ok" /\ ~Degenerate)
        => /\ recip.b1.den # 0 /\ recip.b2.den # 0
           /\ Dot(lat.a1, recip.b1.num) = recip.b1.den
           /\ Dot(lat.a2, recip.b2.num) = recip.b2.den
           /\ Dot(lat.a1, recip.b2.num) = 0
           /\ Dot(lat.a2, recip.b1.num) = 0

\* reciprocal vectors were produced from a non-degenerate pair of vectors that
\* are neither orthogonal nor along the axes
C10_Witness ==
    /\ recip.status = "ok"
    /\ ~Degenerate
    /\ Dot(lat.a1, lat.a2) # 0
    /\ \A i \in 1..2 : lat.a1[i] # 0 /\ lat.a2[i] # 0

\* C11: for every variant and every spacing, the list getUnitCell() returns has
\* getCellSize() particles
C11_CellSize ==
    (request.op = "getUnitCell" /\ points.status = "ok")
        => Len(points.value) = getCellSize(cell)

\* getUnitCell was called on a Honeycomb and returned particles at distinct places
C11_Witness ==
    /\ request.op = "getUnitCell"
    /\ cell = "Honeycomb"
    /\ points.status = "ok"
    /\ Cardinality(Range(points.value)) > 1

\* C12: every point set a lattice generator returns is symmetric under inversion:
\* with the index pair <<n, m>> it holds <<-n, -m>>, for every class and radius
C12_InversionSymmetric ==
    (IsLatticeCall /\ points.status = "ok")
        => \A p \in Range(points.value) : <<-p[1], -p[2]>> \in Range(points.value)

\* Honeycomb.getLattice returned a set whose row n = -1 is not symmetric in m
C12_Witness ==
    /\ cell = "Honeycomb"
    /\ request.op = "getLattice"
    /\ points.status = "ok"
    /\ neighbours >= 2
    /\ <<-1, neighbours>> \in Range(points.value)
    /\ <<-1, -neighbours>> \notin Range(points.value)

SquareRange == {"Square", "Triangle", "SimpleHoneycomb", "Lattice"}

\* C13: a square-range generator with radius N returns each pair of [-N, N]^2
\* exactly once when the origin is requested, and each pair but <<0, 0>> exactly
\* once when it is not
C13_SquareRange ==
    (IsLatticeCall /\ cell \in SquareRange /\ points.status = "ok")
        => LET side == 2 * neighbours + 1
               all == Range(product2(neighbours))
           IN  /\ Range(points.value) = IF request.origin THEN all ELSE all \ {Origin}
               /\ Len(points.value) = IF request.origin THEN side * side
                                       ELSE side * side - 1

C15_SelfSumScaled ==
    (dyadLib # NoComponents /\ dyadTest # NoComponents)
        => /\ dyadLib.xx = CScale(-(dyadIn.k * dyadIn.k), dyadTest.xx)
           /\ dyadLib.xy = CScale(-(dyadIn.k * dyadIn.k), dyadTest.xy)
           /\ dyadLib.yy = CScale(-(dyadIn.k * dyadIn.k), dyadTest.yy)

\* C16: for cell size > 1 every off-diagonal block is assigned exactly once; block
\* (n, m), n < m, is the sum over all inter-cell vectors R of
\* green(pos_m - pos_n + R) * exp(i q.R) and block (m, n) the sum over the same R of
\* green(pos_n - pos_m + R) * exp(i q.R), computed on its own
C16_OffDiagonalBlocks ==
    (imH # NoMatrix /\ getCellSize(imSelf.class) > 1)
        => LET pos == intracell(imSelf)
               R == intercell(imSelf)
           IN  \A n, m \in 1..getCellSize(imSelf.class) :
                   n < m =>
                       /\ imH[<<n, m>>].assigned = 1
                       /\ imH[<<m, n>>].assigned = 1
                       /\ imH[<<n, m>>].value =
                              [i \in DOMAIN R |->
                                  [green |-> <<pos[m][1] - pos[n][1] + R[i][1],
                                               pos[m][2] - pos[n][2] + R[i][2]>>,
                                   phase |-> Dot(imSelf.q, R[i])]]
                       /\ imH[<<m, n>>].value =
                              [i \in DOMAIN R |->
                                  [green |-> <<pos[n][1] - pos[m][1] + R[i][1],
                                               pos[n][2] - pos[m][2] + R[i][2]>>,
                                   phase |-> Dot(imSelf.q, R[i])]]

\* a Honeycomb with neighbours whose blocks (1, 2) and (2, 1) came out different
C16_Witness ==
    /\ imH # NoMatrix
    /\ imSelf.class = "Honeycomb"
    /\ imSelf.neighbours >= 1
    /\ imSelf.spacing >= 1
    /\ imSelf.scaling >= 1
    /\ imSelf.q # Origin
    /\ Len(imH[<<1, 2>>].value) > 1
    /\ imH[<<1, 2>>].value # imH[<<2, 1>>].value

\* C17: for cell size > 1 every diagonal block is the Bloch-weighted sum of green(R)
\* over exactly the lattice vectors R that are not the zero vector, and all diagonal
\* blocks are equal
C17_DiagonalBlocks ==
    (imH # NoMatrix /\ getCellSize(imSelf.class) > 1)
        => LET R == intercell(imSelf)
               nonzero == SelectSeq(R, LAMBDA v : v # <<0, 0>>)
           IN  \A n \in 1..getCellSize(imSelf.class) :
                   /\ imH[<<n, n>>].assigned = 1
                   /\ imH[<<n, n>>].value =
                          [i \in DOMAIN nonzero |->
                              [green |-> nonzero[i], phase |-> Dot(imSelf.q, nonzero[i])]]
                   /\ imH[<<n, n>>].value = imH[<<1, 1>>].value

\* a cell of more than one particle whose lattice holds the zero vector and whose
\* diagonal block has one summand fewer than the lattice has points
C17_Witness ==
    /\ imH # NoMatrix
    /\ getCellSize(imSelf.class) > 1
    /\ imSelf.neighbours >= 1
    /\ imSelf.spacing >= 1
    /\ imSelf.scaling >= 1
    /\ Origin \in Range(intercell(imSelf))
    /\ Len(imH[<<2, 2>>].value) = Len(intercell(imSelf)) - 1

\* C18: a determinant_solver that walked the path returns one candidate per
\* wavevector, in path order, the root where the root finder converged and its last
\* iterate where it did not; an exception never comes from non-convergence
C18_OneRootPerPoint ==
    LET bz == getBrillouinZone(dsSelf.class, dsSelf.resolution, dsSelf.takesFloat)
    IN  /\ dsRoots.status = "ok" =>
              /\ Len(dsRoots.value) = Len(bz.value)
              /\ \A k \in DOMAIN bz.value :
                     /\ dsRoots.value[k].q = bz.value[k]
                     /\ dsRoots.value[k].kind = IF dsConv[k] THEN "root" ELSE "last iterate"
        /\ dsRoots.status = "raised" =>
              determinant_solver_roots(dsSelf, [k \in 1..MaxRes |-> TRUE]).status = "raised"

\* a returned list in which one point converged and another did not
C18_Witness ==
    /\ dsRoots.status = "ok"
    /\ Len(dsRoots.value) >= 3
    /\ \E j, k \in DOMAIN dsRoots.value :
          /\ j < k
          /\ dsRoots.value[j].kind = "last iterate"
          /\ dsRoots.value[k].kind = "root"

\* C19: no operation of a unit cell, no Ewald call and no calcExtinction on any of
\* the four variants ends in a missing-operation or missing-attribute failure
C19_NoMissingOperation ==
    /\ ~(points.status = "raised" /\ points.value = "AttributeError")
    /\ ~(matrix.status = "raised" /\ matrix.value = "AttributeError")

\* C20: in every execution, whether the module is run as a script, imported or loaded
\* in a worker process, every component that evaluates k = w*ev reads a value, the
\* one value the constant was assigned before
C20_AssignedBeforeUse ==
    \A c \in Readers :
        evReads[c].status # "none" =>
            /\ evReads[c].status = "ok"
            /\ evGlobal.status = "set"
            /\ evReads[c].value = evGlobal.value

\* the high-symmetry points of a path whose points are <<x, y, D>>
IsGamma(p) == p[1] = 0 /\ p[2] = 0

IsX(p) == p[1] = p[3] /\ p[2] = 0

IsM(p) == p[1] = p[3] /\ p[2] = p[3]

IsK(p) == p[1] = p[3] /\ p[2] = 0

IsHoneycombM(p) == p[1] = 0 /\ p[2] = p[3]

\* C21: Square.getBrillouinZone returns a path that starts at Gamma, reaches X and
\* then M, each once, and ends at Gamma; Honeycomb.getBrillouinZone returns a path
\* that starts at K, reaches Gamma and ends at M
C21_PathOrder ==
    (request.op = "getBrillouinZone" /\ cell \in {"Square", "Honeycomb"})
        => /\ points.status = "ok"
           /\ points.value # << >> =>
                 LET path == points.value
                     last == path[Len(path)]
                 IN  IF cell = "Square"
                     THEN /\ IsGamma(path[1])
                          /\ IsGamma(last)
                          /\ \E i, j \in DOMAIN path :
                                /\ i < j
                                /\ \A k \in DOMAIN path : IsX(path[k]) <=> k = i
                                /\ \A k \in DOMAIN path : IsM(path[k]) <=> k = j
                     ELSE /\ IsK(path[1])
                          /\ IsHoneycombM(last)
                          /\ \E k \in DOMAIN path : IsGamma(path[k])

\* the accumulated series of offset j_min, terms j..j_max, times j_max! * (2E)**(2*j_max)
RECURSIVE SeriesFrom(_, _, _, _, _)
SeriesFrom(self, d2, w, j_min, j) ==
    IF j > self.j_max THEN 0
    ELSE (factorial(self.j_max) \div factorial(j)) * Pow(w, 2 * j)
             * Pow(2 * self.E, 2 * (self.j_max - j)) * expn(j + j_min, d2 * self.E * self.E)
         + SeriesFrom(self, d2, w, j_min, j + 1)

\* C23: t2IntegralFunc(dist, w, j_min) returns the sum over all j = 0..j_max of its
\* terms, and for offset 1 the value integralFunc returns
C23_SeriesAccumulated ==
    igValues["t2IntegralFunc"] # NotCalled
        => /\ igValues["t2IntegralFunc"].value
                 = SeriesFrom(igSelf, igArgs.d2, igArgs.w, igArgs.j_min, 0)
           /\ (igArgs.j_min = 1 /\ igValues["integralFunc"] # NotCalled)
                 => igValues["t2IntegralFunc"].value = igValues["integralFunc"].value

\* C24: the summands of t2_lim(w, n) are weighted by the integral of order abs(n)
C24_IntegralOrder ==
    igValues["t2_lim"] # NotCalled => igValues["t2_lim"].value = abs(igArgs.n)

\* the n = 2 instance of the recurrence, times 8 * dist**2 * IUnit:
\* E**2/(2 dist**2) * exp(..) + I_1/dist**2 - (k**2/(4 dist**2)) * I_0
I2OfRecurrence(self, d2, w) ==
    4 * self.E * self.E * IUnit(self) * gaussian(self, w, d2)
        + 8 * t2_I_1(self, d2, w) - 2 * w * w * t2_I_0(self, d2, w)

\* C25: the library's t2_I_2, and the test script's t2_I_n at n = 2, are the n = 2
\* instance of the recurrence
C25_SecondOrder ==
    /\ igValues["t2_I_2"] # NotCalled
          => igValues["t2_I_2"].value = I2OfRecurrence(igSelf, igArgs.d2, igArgs.w)
    /\ (igValues["t2_I_n"] # NotCalled /\ igArgs.n = 2)
          => /\ igValues["t2_I_n"].status = "ok"
             /\ igValues["t2_I_n"].value = I2OfRecurrence(igSelf, igArgs.d2, igArgs.w)

\* C26: t2_I_n(dist, w, n) returns for every n >= 0, and no call of its evaluation
\* has an order below 0
C26_RecurrenceTerminates ==
    igValues["t2_I_n"] # NotCalled
        => /\ igValues["t2_I_n"].status = "ok"
           /\ \A m \in igValues["t2_I_n"].orders : m >= 0

\* C29: -conjugate(h_pos2) equals t1_lim(w, -2) + t2_lim(w, -2) on the same context
\* and frequency, in the library and in the test script
C29_NegativeShortcut ==
    igValues["h_neg2"] # NotCalled
        => igValues["h_neg2"].value.shortcut = igValues["h_neg2"].value.direct

\* C30: every call of t1_lim or t2_lim returns what the undecorated function gives
\* for its own context and arguments, every entry of a cache is that value for its
\* key, and no step removes an entry or changes its value
C30_CacheTransparent ==
    /\ [](/\ shCall # NoDecoratedCall
                => shCall.ret = undecorated(shCall.fn, shCall.self, shCall.w, shCall.n)
          /\ \A fn \in Decorated, self \in Instances :
                decorated_args(self, 1, 2) \in DOMAIN shCache[fn]
                    => shCache[fn][decorated_args(self, 1, 2)] = undecorated(fn, self, 1, 2))
    /\ [][\A fn \in Decorated : \A args \in DOMAIN shCache[fn] :
              args \in DOMAIN shCache'[fn] /\ shCache'[fn][args] = shCache[fn][args]]_vars

\* a call answered from the cache while the same dict holds, under the same (w, n),
\* a different value for another context
C30_Witness ==
    /\ shCall # NoDecoratedCall
    /\ shCall.hit
    /\ \E other \in Instances \ {shCall.self} :
          /\ decorated_args(other, shCall.w, shCall.n) \in DOMAIN shCache[shCall.fn]
          /\ shCache[shCall.fn][decorated_args(other, shCall.w, shCall.n)] # shCall.ret

\* the interaction matrix and 1/polarisability of the state at frequency w
EgMatrix(w) == interactionMatrix_at(egSelf, w)

EgAlphaInv(w) == reciprocalPolarisability(egSelf, w)

\* C27: the matrix calcExtinction inverts has every diagonal entry of the interaction
\* matrix reduced by 1/polarisability once and every other entry unchanged, it is the
\* matrix of eigenproblem, and determinant([a, b]) is [Re, Im] of the determinant of
\* eigenproblem(a + ib)
C27_EigenproblemMatrix ==
    /\ egOut["calcExtinction"].status = "ok"
          => /\ \A i \in 1..2, j \in 1..2 :
                   egOut["calcExtinction"].value[i][j]
                       = IF i = j
                         THEN CAdd(EgMatrix(Real(egW[1]))[i][j],
                                   CNeg(EgAlphaInv(Real(egW[1]))))
                         ELSE EgMatrix(Real(egW[1]))[i][j]
             /\ egOut["eigenproblem"].status = "ok"
                   => egOut["eigenproblem"].value = egOut["calcExtinction"].value
    /\ egOut["determinant"].status = "ok"
          => LET M == arrayMinus(EgMatrix(egW), identityOver(2, EgAlphaInv(egW)))
                 d == CAdd(CMul(M[1][1], M[2][2]), CNeg(CMul(M[1][2], M[2][1])))
             IN  egOut["determinant"].value = <<d[1], d[2]>>

\* all three were called and returned, at a complex frequency, and the determinant
\* has different real and imaginary parts
C27_Witness ==
    /\ \A f \in EigenCalls : egOut[f].status = "ok"
    /\ egW[2] # 0
    /\ egOut["determinant"].value[1] # egOut["determinant"].value[2]
    /\ egOut["calcExtinction"].value # EgMatrix(Real(egW[1]))

\* C28: for every resolution >= 3 the path of the constructor has exactly resolution
\* wavevectors, and plotExtinction reshapes its resolution * resolution values
C28_PathLength ==
    plSelf.resolution >= 3
        => /\ plOut["__init__"] # NotCalled
                 => /\ plOut["__init__"].status = "ok"
                    /\ plOut["__init__"].value.qrange = plSelf.resolution
           /\ plOut["plotExtinction"] # NotCalled
                 => plOut["plotExtinction"]
                        = Returned(<<plSelf.resolution, plSelf.resolution>>)

====
